---- MODULE Spec2Model ----
(***************************************************************************)
(* Model of the Fourier transform engine (FourierTransform), the complex   *)
(* image types (ComplexImage, RGBComplexImage) and the FourierVisualizer   *)
(* state machine of CppFourierImage.                                       *)
(*                                                                         *)
(* Scalars are exact numbers (a + b sqrt(3)) / d.  The modelled 1D lengths *)
(* are 0, 1, 2, 3 and 4, for which every twiddle factor is a multiple of   *)
(* 30 degrees and is carried exactly.                                      *)
(***************************************************************************)
EXTENDS Integers, Sequences, FiniteSets, TLC

----------------------------------------------------------------------------
(* Scalar arithmetic (Types.hpp: using Scalar = double)                    *)
(* A scalar is (a + b * sqrt(3)) / d, carried as <<a, b, d>> with d > 0    *)
(* and gcd(a, b, d) = 1; the representation of a value is unique.          *)

Abs(n) == IF n < 0 THEN -n ELSE n

Min(a, b) == IF a < b THEN a ELSE b

RECURSIVE GCD(_, _)
GCD(a, b) == IF b = 0 THEN a ELSE GCD(b, a % b)

Surd(a, b, d) ==
    LET s == IF d < 0 THEN -1 ELSE 1
        g == GCD(GCD(Abs(a), Abs(b)), Abs(d))
    IN  <<(s * a) \div g, (s * b) \div g, (s * d) \div g>>

Rat(n, d) == Surd(n, 0, d)

RZero == <<0, 0, 1>>
ROne == <<1, 0, 1>>
RAdd(x, y) == Surd(x[1] * y[3] + y[1] * x[3], x[2] * y[3] + y[2] * x[3], x[3] * y[3])
RSub(x, y) == Surd(x[1] * y[3] - y[1] * x[3], x[2] * y[3] - y[2] * x[3], x[3] * y[3])
RMul(x, y) == Surd(x[1] * y[1] + 3 * x[2] * y[2], x[1] * y[2] + x[2] * y[1], x[3] * y[3])

\* x / y for y # 0: 1 / ((a + b sqrt 3) / d) = d (a - b sqrt 3) / (a^2 - 3 b^2)
RDiv(x, y) ==
    RMul(x, Surd(y[3] * y[1], -(y[3] * y[2]), y[1] * y[1] - 3 * y[2] * y[2]))

\* the sign of a + b sqrt 3
Sign(r) ==
    LET a == r[1]
        b == r[2]
    IN  IF a = 0 /\ b = 0 THEN 0
        ELSE IF a >= 0 /\ b >= 0 THEN 1
        ELSE IF a <= 0 /\ b <= 0 THEN -1
        ELSE IF a > 0 THEN (IF a * a > 3 * b * b THEN 1 ELSE -1)
        ELSE (IF 3 * b * b > a * a THEN 1 ELSE -1)

RLess(x, y) == Sign(RSub(y, x)) = 1

(* Complex = std::complex<Scalar>                                          *)
Complex(re, im) == [re |-> re, im |-> im]
CInt(a, b) == Complex(Rat(a, 1), Rat(b, 1))
CZero == Complex(RZero, RZero)
CAdd(u, v) == Complex(RAdd(u.re, v.re), RAdd(u.im, v.im))
CSub(u, v) == Complex(RSub(u.re, v.re), RSub(u.im, v.im))
CMul(u, v) == Complex(RSub(RMul(u.re, v.re), RMul(u.im, v.im)),
                      RAdd(RMul(u.re, v.im), RMul(u.im, v.re)))
CScale(u, f) == Complex(RMul(u.re, f), RMul(u.im, f))

\* the sum of the samples data[i..]
RECURSIVE SumFrom(_, _)
SumFrom(data, i) ==
    IF i > Len(data) THEN CZero ELSE CAdd(data[i], SumFrom(data, i + 1))

(* std::abs(c) is sqrt(re^2 + im^2); where only the order or the equality  *)
(* of magnitudes matters they are carried as their squares.                *)
MagSq(c) == RAdd(RMul(c.re, c.re), RMul(c.im, c.im))

(* std::arg(c) is atan2(im, re); the phase is carried as the direction of  *)
(* c: the signs of re and im and cos^2 of the angle.  arg(0) is 0, the     *)
(* phase of a positive real.                                               *)
Arg(c) ==
    IF c = CZero THEN <<1, 0, ROne>>
    ELSE <<Sign(c.re), Sign(c.im), RDiv(RMul(c.re, c.re), MagSq(c))>>

----------------------------------------------------------------------------
(* ComplexImage                                                            *)

Zeros(n) == [i \in 1..n |-> CZero]

\* ComplexImage::ComplexImage(width, height), and the default constructor
\* as ComplexImage(0, 0)
ComplexImage(width, height) ==
    [width |-> width, height |-> height, data |-> Zeros(width * height)]

\* ComplexImage::index
index(img, x, y) == y * img.width + x

\* ComplexImage::at (read)
at(img, x, y) == img.data[index(img, x, y) + 1]

\* ComplexImage::at (write): at(x, y) = c
setAt(img, x, y, c) ==
    [img EXCEPT !.data = [@ EXCEPT ![index(img, x, y) + 1] = c]]

\* resize that sets the dimensions and leaves the buffer as it was
resize_KeepBuffer(img, width, height) ==
    [img EXCEPT !.width = width, !.height = height]

\* ComplexImage::resize
resize(img, width, height) ==
    [width |-> width, height |-> height,
     data |-> [i \in 1..(width * height) |->
                  IF i <= Len(img.data) THEN img.data[i] ELSE CZero]]

\* ComplexImage::getMagnitudeImage
getMagnitudeImage(img) == [i \in 1..Len(img.data) |-> MagSq(img.data[i])]

\* ComplexImage::getPhaseImage
getPhaseImage(img) == [i \in 1..Len(img.data) |-> Arg(img.data[i])]

\* ComplexImage::setFromGrayscale; grayscale_data holds at least width *
\* height bytes
setFromGrayscale(img, grayscale_data, width, height) ==
    LET resized == resize(img, width, height)
    IN  [resized EXCEPT !.data =
            [i \in 1..Len(resized.data) |-> Complex(Rat(grayscale_data[i], 255), RZero)]]

\* the square root of a scalar that is the square of a rational
Sqrt(r) ==
    LET root(n) == CHOOSE k \in 0..n : k * k = n
    IN  IF r[2] = 0 THEN Surd(root(r[1]), 0, root(r[3]))
        ELSE CHOOSE x \in {} : TRUE

\* std::abs(c)
Magnitude(c) == Sqrt(MagSq(c))

\* normalize, the loop max_magnitude = std::max(max_magnitude, std::abs(c))
RECURSIVE MaxMagnitude(_, _, _)
MaxMagnitude(data, i, max_magnitude) ==
    IF i > Len(data) THEN max_magnitude
    ELSE MaxMagnitude(data, i + 1,
                      IF RLess(max_magnitude, Magnitude(data[i]))
                      THEN Magnitude(data[i]) ELSE max_magnitude)

\* ComplexImage::normalize; a non-zero magnitude of the modelled samples is
\* above std::numeric_limits<Scalar>::epsilon()
normalize(img) ==
    LET max_magnitude == MaxMagnitude(img.data, 1, RZero)
    IN  IF Sign(max_magnitude) <= 0 THEN img
        ELSE [img EXCEPT !.data =
                 [i \in 1..Len(img.data) |->
                     CScale(img.data[i], RDiv(ROne, max_magnitude))]]

\* std::swap(at(x1, y1), at(x2, y2))
SwapAt(img, x1, y1, x2, y2) ==
    setAt(setAt(img, x1, y1, at(img, x2, y2)), x2, y2, at(img, x1, y1))

\* fftShift whose second swap exchanges the wrong pair of quadrants
RECURSIVE ShiftLoop_WrongQuadrant(_, _, _, _, _)
ShiftLoop_WrongQuadrant(img, half_width, half_height, x, y) ==
    IF y >= half_height THEN img
    ELSE IF x >= half_width
    THEN ShiftLoop_WrongQuadrant(img, half_width, half_height, 0, y + 1)
    ELSE ShiftLoop_WrongQuadrant(
             SwapAt(SwapAt(img, x, y, x + half_width, y + half_height),
                    x + half_width, y, x + half_width, y + half_height),
             half_width, half_height, x + 1, y)

\* fftShift, the loops over y < half_height and x < half_width
RECURSIVE ShiftLoop(_, _, _, _, _)
ShiftLoop(img, half_width, half_height, x, y) ==
    IF y >= half_height THEN img
    ELSE IF x >= half_width THEN ShiftLoop(img, half_width, half_height, 0, y + 1)
    ELSE ShiftLoop(SwapAt(SwapAt(img, x, y, x + half_width, y + half_height),
                          x + half_width, y, x, y + half_height),
                   half_width, half_height, x + 1, y)

\* ComplexImage::fftShift
fftShift(img) == ShiftLoop(img, img.width \div 2, img.height \div 2, 0, 0)

\* ComplexImage::ifftShift
ifftShift(img) == fftShift(img)

----------------------------------------------------------------------------
(* RGBComplexImage                                                         *)

\* RGBComplexImage::RGBComplexImage(width, height)
RGBComplexImage(width, height) ==
    [width |-> width, height |-> height,
     channels |-> [c \in 1..3 |-> resize(ComplexImage(0, 0), width, height)]]

\* a uint32_t is carried as <<high 16 bits, low 16 bits>>
\* (pixel >> 24) & 0xFF, (pixel >> 16) & 0xFF, (pixel >> 8) & 0xFF
RedOf(pixel) == (pixel[1] \div 256) % 256
GreenOf(pixel) == pixel[1] % 256
\* the blue byte read from the alpha position
BlueOf_LowByte(pixel) == pixel[2] % 256

BlueOf(pixel) == (pixel[2] \div 256) % 256

\* RGBComplexImage::setFromRGB; rgbData holds at least width * height pixels
setFromRGB(rgb, rgbData, width, height) ==
    LET byte(c, pixel) == CASE c = 1 -> RedOf(pixel)
                            [] c = 2 -> GreenOf(pixel)
                            [] c = 3 -> BlueOf(pixel)
    IN  [width |-> width, height |-> height,
         channels |->
            [c \in 1..3 |->
                LET resized == resize(rgb.channels[c], width, height)
                IN  [resized EXCEPT !.data =
                        [i \in 1..Len(resized.data) |->
                            Complex(Rat(byte(c, rgbData[i]), 255), RZero)]]]]

\* std::clamp(v, lo, hi)
Clamp(v, lo, hi) == IF RLess(v, lo) THEN lo ELSE IF RLess(hi, v) THEN hi ELSE v

\* static_cast<uint8_t>(v) for 0 <= v <= 255: the integer part
Truncate(v) ==
    IF v[2] = 0 THEN v[1] \div v[3]
    ELSE CHOOSE n \in 0..255 :
             ~RLess(v, Rat(n, 1)) /\ RLess(v, Rat(n + 1, 1))

\* toRGB: one channel sample as an 8-bit value
ToByte(c) == Truncate(RMul(Clamp(c.re, RZero, ROne), Rat(255, 1)))

\* RGBComplexImage::toRGB; (r8 << 24) | (g8 << 16) | (b8 << 8) | 0xFF
toRGB(rgb) ==
    [i \in 1..(rgb.width * rgb.height) |->
        <<ToByte(rgb.channels[1].data[i]) * 256 + ToByte(rgb.channels[2].data[i]),
          ToByte(rgb.channels[3].data[i]) * 256 + 255>>]

\* RGBComplexImage() = default
RGBDefault ==
    [width |-> 0, height |-> 0, channels |-> [c \in 1..3 |-> ComplexImage(0, 0)]]

\* RGBComplexImage::getChannel(channel), channel in 0..2
getChannel(rgb, channel) == rgb.channels[channel + 1]

----------------------------------------------------------------------------
(* FourierTransform                                                        *)

Direction == {"Forward", "Inverse"}

\* cos and sin of the multiples of 30 degrees
Cos30(q) ==
    CASE q = 0 -> Surd(1, 0, 1)   [] q = 1 -> Surd(0, 1, 2)
      [] q = 2 -> Surd(1, 0, 2)   [] q = 3 -> Surd(0, 0, 1)
      [] q = 4 -> Surd(-1, 0, 2)  [] q = 5 -> Surd(0, -1, 2)
      [] q = 6 -> Surd(-1, 0, 1)  [] q = 7 -> Surd(0, -1, 2)
      [] q = 8 -> Surd(-1, 0, 2)  [] q = 9 -> Surd(0, 0, 1)
      [] q = 10 -> Surd(1, 0, 2)  [] q = 11 -> Surd(0, 1, 2)

Sin30(q) == Cos30((q + 9) % 12)

\* Complex(std::cos(angle), std::sin(angle)) for angle = angle_sign * m / n,
\* angle_sign = -2 PI (Forward) or 2 PI (Inverse); n divides 12
Twiddle(direction, m, n) ==
    LET q == ((12 * m) \div n) % 12
        s == IF direction = "Forward" THEN 12 - q ELSE q
    IN  Complex(Cos30(s % 12), Sin30(s % 12))

\* (n & (n - 1)) == 0 for n >= 1
RECURSIVE IsPowerOfTwo(_)
IsPowerOfTwo(n) ==
    IF n = 1 THEN TRUE
    ELSE IF n % 2 = 1 THEN FALSE
    ELSE IsPowerOfTwo(n \div 2)

\* cooleyTukeyFFT, bit reversal: while (j & bit) { j ^= bit; bit >>= 1; } j ^= bit
RECURSIVE NextReversed(_, _)
NextReversed(j, bit) ==
    IF bit = 0 THEN j
    ELSE IF (j \div bit) % 2 = 1 THEN NextReversed(j - bit, bit \div 2)
    ELSE j + bit

Swap(data, i, j) == [data EXCEPT ![i + 1] = data[j + 1], ![j + 1] = data[i + 1]]

\* cooleyTukeyFFT, the bit-reversal permutation loop over i
RECURSIVE BitReverse(_, _, _)
BitReverse(data, i, j) ==
    IF i >= Len(data) THEN data
    ELSE BitReverse(IF i < j THEN Swap(data, i, j) ELSE data,
                    i + 1, NextReversed(j, Len(data) \div 2))

\* cooleyTukeyFFT, innermost loop over j < half_len of the block at i
RECURSIVE Butterflies(_, _, _, _, _, _)
Butterflies(data, i, half_len, j, w, wlen) ==
    IF j >= half_len THEN data
    ELSE LET u == data[i + j + 1]
             v == CMul(data[i + j + half_len + 1], w)
         IN  Butterflies([data EXCEPT ![i + j + 1] = CAdd(u, v),
                                      ![i + j + half_len + 1] = CSub(u, v)],
                         i, half_len, j + 1, CMul(w, wlen), wlen)

\* cooleyTukeyFFT, loop over the blocks i = 0, len, 2 len, ...
RECURSIVE Blocks(_, _, _, _)
Blocks(data, len, i, wlen) ==
    IF i >= Len(data) THEN data
    ELSE Blocks(Butterflies(data, i, len \div 2, 0, CInt(1, 0), wlen),
                len, i + len, wlen)

\* cooleyTukeyFFT, loop over len = 2, 4, ..., n
RECURSIVE Passes(_, _, _)
Passes(data, len, direction) ==
    IF len > Len(data) THEN data
    ELSE Passes(Blocks(data, len, 0, Twiddle(direction, 1, len)),
                2 * len, direction)

\* an inverse transform without the 1/n factor
InverseScale_Unscaled(data, direction) == data

\* the 1/n factor both 1D transforms apply for Direction::Inverse
InverseScale(data, direction) ==
    IF direction = "Inverse"
    THEN [i \in 1..Len(data) |-> CScale(data[i], Rat(1, Len(data)))]
    ELSE data

\* cooleyTukeyFFT without the bit-reversal permutation
cooleyTukeyFFT_NoBitReversal(data, direction) ==
    IF Len(data) <= 1 THEN data
    ELSE InverseScale(Passes(data, 2, direction), direction)

\* FourierTransform::cooleyTukeyFFT
cooleyTukeyFFT(data, direction) ==
    IF Len(data) <= 1 THEN data
    ELSE InverseScale(Passes(BitReverse(data, 0, 0), 2, direction), direction)

\* FourierTransform::dft, the inner sum over j
RECURSIVE DftSum(_, _, _, _)
DftSum(data, k, j, direction) ==
    IF j >= Len(data) THEN CZero
    ELSE CAdd(CMul(data[j + 1], Twiddle(direction, k * j, Len(data))),
              DftSum(data, k, j + 1, direction))

\* FourierTransform::dft
dft(data, direction) ==
    InverseScale([i \in 1..Len(data) |-> DftSum(data, i - 1, 0, direction)],
                 direction)

\* FourierTransform::fft1D
fft1D(data, direction) ==
    IF Len(data) <= 1 THEN data
    ELSE IF IsPowerOfTwo(Len(data)) THEN cooleyTukeyFFT(data, direction)
    ELSE dft(data, direction)

\* fft2D, first loop: every row is transformed in place
TransformRows(image, direction) ==
    LET rows == [y \in 0..(image.height - 1) |->
                    fft1D([i \in 1..image.width |-> at(image, i - 1, y)], direction)]
    IN  [image EXCEPT !.data =
            [i \in 1..Len(image.data) |->
                rows[(i - 1) \div image.width][((i - 1) % image.width) + 1]]]

\* fft2D, second loop: every column is transformed in place
TransformColumns(image, direction) ==
    LET cols == [x \in 0..(image.width - 1) |->
                    fft1D([i \in 1..image.height |-> at(image, x, i - 1)], direction)]
    IN  [image EXCEPT !.data =
            [i \in 1..Len(image.data) |->
                cols[(i - 1) % image.width][((i - 1) \div image.width) + 1]]]

\* FourierTransform::fft2D
fft2D(image, direction) == TransformColumns(TransformRows(image, direction), direction)

\* FourierTransform::transform2D
transform2D(input, direction) ==
    IF input.width = 0 \/ input.height = 0 THEN ComplexImage(0, 0)
    ELSE fft2D(input, direction)

\* std::less<> in place of std::greater<>
TupleGreater_Less(a, b) ==
    \/ RLess(a[1], b[1])
    \/ a[1] = b[1] /\ a[2] < b[2]
    \/ a[1] = b[1] /\ a[2] = b[2] /\ a[3] < b[3]

\* std::greater<> on std::tuple<Scalar, int, int>: lexicographic on
\* (magnitude, x, y)
TupleGreater(a, b) ==
    \/ RLess(b[1], a[1])
    \/ a[1] = b[1] /\ a[2] > b[2]
    \/ a[1] = b[1] /\ a[2] = b[2] /\ a[3] > b[3]

\* getTopFrequencyIndices, the (magnitude, x, y) tuples of every sample
MagnitudeIndices(frequency_domain) ==
    {<<MagSq(at(frequency_domain, x, y)), x, y>> :
        x \in 0..(frequency_domain.width - 1),
        y \in 0..(frequency_domain.height - 1)}

\* a sort that leaves the limit first elements in increasing order
RECURSIVE PartialSort_Ascending(_, _)
PartialSort_Ascending(tuples, limit) ==
    IF limit = 0 THEN <<>>
    ELSE LET first == CHOOSE t \in tuples :
                          \A u \in tuples \ {t} : TupleGreater(t, u)
         IN  PartialSort_Ascending(tuples \ {first}, limit - 1) \o <<first>>

\* std::partial_sort(begin, begin + limit, end, comp): the first limit
\* positions hold the limit first elements of the comp-sorted range
RECURSIVE PartialSort(_, _)
PartialSort(tuples, limit) ==
    IF limit = 0 THEN <<>>
    ELSE LET first == CHOOSE t \in tuples :
                          \A u \in tuples \ {t} : TupleGreater(t, u)
         IN  <<first>> \o PartialSort(tuples \ {first}, limit - 1)

\* getTopFrequencyIndices that returns one coordinate too few
getTopFrequencyIndices_OneShort(frequency_domain, num_frequencies) ==
    LET magnitude_indices == MagnitudeIndices(frequency_domain)
        limit == Min(num_frequencies, Cardinality(magnitude_indices))
        sorted == PartialSort(magnitude_indices, limit)
    IN  [i \in 1..(limit - 1) |-> <<sorted[i][2], sorted[i][3]>>]

\* FourierTransform::getTopFrequencyIndices
getTopFrequencyIndices(frequency_domain, num_frequencies) ==
    LET magnitude_indices == MagnitudeIndices(frequency_domain)
        limit == Min(num_frequencies, Cardinality(magnitude_indices))
        sorted == PartialSort(magnitude_indices, limit)
    IN  [i \in 1..limit |-> <<sorted[i][2], sorted[i][3]>>]

\* keepTopFrequencies, the loop over top_indices
RECURSIVE CopySamples(_, _, _, _)
CopySamples(result, frequency_domain, top_indices, i) ==
    IF i > Len(top_indices) THEN result
    ELSE CopySamples(setAt(result, top_indices[i][1], top_indices[i][2],
                           at(frequency_domain, top_indices[i][1], top_indices[i][2])),
                     frequency_domain, top_indices, i + 1)

\* keepTopFrequencies whose result starts as a copy of frequency_domain
keepTopFrequencies_FromCopy(frequency_domain, num_frequencies) ==
    CopySamples(frequency_domain, frequency_domain,
                getTopFrequencyIndices(frequency_domain, num_frequencies), 1)

\* FourierTransform::keepTopFrequencies
keepTopFrequencies(frequency_domain, num_frequencies) ==
    CopySamples(ComplexImage(frequency_domain.width, frequency_domain.height),
                frequency_domain,
                getTopFrequencyIndices(frequency_domain, num_frequencies), 1)

\* a signed frequency that is never wrapped to the negative side
SignedFrequency_Unsigned(i, n) == i

\* applyFrequencyMask: (x < width / 2.0) ? x : x - width
SignedFrequency(i, n) == IF 2 * i < n THEN i ELSE i - n

\* applyFrequencyMask: freq > frequency_cutoff for freq = std::sqrt(freq_sq)
RootGreater(freq_sq, cutoff) ==
    IF Sign(cutoff) < 0 THEN TRUE
    ELSE RLess(RMul(cutoff, cutoff), Rat(freq_sq, 1))

\* applyFrequencyMask: freq < frequency_cutoff for freq = std::sqrt(freq_sq)
RootLess(freq_sq, cutoff) ==
    IF Sign(cutoff) <= 0 THEN FALSE
    ELSE RLess(Rat(freq_sq, 1), RMul(cutoff, cutoff))

\* applyFrequencyMask, the filter: is the sample at (x, y) masked
Masked(width, height, x, y, frequency_cutoff, low_pass) ==
    LET fx == SignedFrequency(x, width)
        fy == SignedFrequency(y, height)
        freq_sq == fx * fx + fy * fy
    IN  \/ low_pass /\ RootGreater(freq_sq, frequency_cutoff)
        \/ ~low_pass /\ RootLess(freq_sq, frequency_cutoff)

\* applyFrequencyMask, the for_each over the masked coordinates (y, x) of
\* the cartesian product, in row-major order from position i
RECURSIVE MaskFrom(_, _, _, _)
MaskFrom(result, i, frequency_cutoff, low_pass) ==
    IF i >= result.width * result.height THEN result
    ELSE LET x == i % result.width
             y == i \div result.width
         IN  MaskFrom(IF Masked(result.width, result.height, x, y,
                                frequency_cutoff, low_pass)
                      THEN setAt(result, x, y, CZero)
                      ELSE result,
                      i + 1, frequency_cutoff, low_pass)

\* FourierTransform::applyFrequencyMask
applyFrequencyMask(frequency_domain, frequency_cutoff, low_pass) ==
    MaskFrom(frequency_domain, 0, frequency_cutoff, low_pass)

\* a channel task that always reads the red channel
ChannelTask_Red(input, channel, direction) ==
    transform2D(getChannel(input, 0), direction)

\* transformRGB2D, the task std::async runs for one channel
ChannelTask(input, channel, direction) ==
    transform2D(getChannel(input, channel), direction)

\* transformRGB2D: result.getChannel(channel) = future.get()
CollectChannel(result, channel, value) ==
    [result EXCEPT !.channels[channel + 1] = value]

\* FourierTransform::transformRGB2D: one task per channel, all joined
transformRGB2D(input, direction) ==
    [RGBComplexImage(input.width, input.height) EXCEPT !.channels =
        [c \in 1..3 |-> transform2D(getChannel(input, c - 1), direction)]]

\* FourierTransform::keepTopFrequenciesRGB
keepTopFrequenciesRGB(frequency_domain, num_frequencies) ==
    [RGBComplexImage(frequency_domain.width, frequency_domain.height) EXCEPT !.channels =
        [c \in 1..3 |-> keepTopFrequencies(getChannel(frequency_domain, c - 1),
                                           num_frequencies)]]

----------------------------------------------------------------------------
(* FourierVisualizer                                                       *)

VARIABLES
    frequency_domain_,      \* ComplexImage frequency_domain_
    rgb_frequency_domain_,  \* RGBComplexImage rgb_frequency_domain_
    animation_state_,       \* AnimationState animation_state_
    lastOp,                 \* the last call made on the visualizer: its name,
                            \* whether its argument differed from the count,
                            \* and the calls it made
    probe                   \* a call of a FourierTransform function and its result

vars == <<frequency_domain_, rgb_frequency_domain_, animation_state_, lastOp, probe>>

(* Bounds of the model *)
MaxCount == 5            \* largest argument of setFrequencyCount
MaxDelta == 2            \* largest delta_time, in ticks
MaxTime == 6             \* cap on the elapsed-time accumulator, in ticks
TicksPerSecond == 12     \* resolution of the modelled time values

\* updateAnimation: static_cast<size_t>(time_accumulator * 10)
FrequenciesPerSecond == 10

\* values of animation_speed written through getAnimationState()
Speeds == {1, 2}

\* an image from row-major samples given as <<re, im>> integer pairs
MakeImage(width, height, samples) ==
    [width |-> width, height |-> height,
     data |-> [i \in 1..Len(samples) |-> CInt(samples[i][1], samples[i][2])]]

MakeRGB(width, height, r, g, b) ==
    [width |-> width, height |-> height,
     channels |-> <<MakeImage(width, height, r), MakeImage(width, height, g),
                    MakeImage(width, height, b)>>]

\* frequency-domain images handed to setImage
GrayImages ==
    { ComplexImage(0, 0),
      ComplexImage(0, 2),
      MakeImage(2, 1, <<<<2, 0>>, <<-1, 2>>>>),
      MakeImage(2, 2, <<<<4, 0>>, <<0, 1>>, <<-2, 0>>, <<1, 0>>>>) }

\* frequency-domain images handed to setRGBImage
RGBImages ==
    { RGBComplexImage(0, 0),
      MakeRGB(1, 1, <<<<2, 0>>>>, <<<<1, 0>>>>, <<<<0, 0>>>>),
      MakeRGB(2, 1, <<<<1, 0>>, <<3, 0>>>>, <<<<3, 0>>, <<1, 0>>>>,
                    <<<<0, 1>>, <<-1, 0>>>>) }

\* updateAnimation: static_cast<size_t>(time_accumulator * 10), the time
\* being time_accumulator / TicksPerSecond seconds
TargetCount(time_accumulator) ==
    (time_accumulator * FrequenciesPerSecond) \div TicksPerSecond

(* FourierTransform is stateless: its results on the images the visualizer *)
(* can hold, for the counts it can have, are computed once and looked up;  *)
(* any other argument is computed on the spot.                             *)
Counts ==
    0..(IF MaxCount > TargetCount(MaxTime) THEN MaxCount ELSE TargetCount(MaxTime))

HeldRGBImages == RGBImages \cup {RGBDefault}

HeldImages ==
    GrayImages \cup {ComplexImage(0, 0)}
        \cup {getChannel(rgb, c) : rgb \in HeldRGBImages, c \in 0..2}

TopIndicesOf ==
    [image \in HeldImages |->
        [k \in Counts |-> getTopFrequencyIndices(image, k)]]

TopFrequenciesOf ==
    [image \in HeldImages |-> [k \in Counts |-> keepTopFrequencies(image, k)]]

InverseOf ==
    [image \in {TopFrequenciesOf[i][k] : i \in HeldImages, k \in Counts} |->
        transform2D(image, "Inverse")]

TopFrequenciesRGBOf ==
    [rgb \in HeldRGBImages |-> [k \in Counts |-> keepTopFrequenciesRGB(rgb, k)]]

InverseRGBOf ==
    [rgb \in {TopFrequenciesRGBOf[i][k] : i \in HeldRGBImages, k \in Counts} |->
        transformRGB2D(rgb, "Inverse")]

\* transform.getTopFrequencyIndices(...) as the visualizer calls it
Engine_getTopFrequencyIndices(image, k) ==
    IF image \in DOMAIN TopIndicesOf /\ k \in Counts THEN TopIndicesOf[image][k]
    ELSE getTopFrequencyIndices(image, k)

\* transform.keepTopFrequencies(...) as the visualizer calls it
Engine_keepTopFrequencies(image, k) ==
    IF image \in DOMAIN TopFrequenciesOf /\ k \in Counts THEN TopFrequenciesOf[image][k]
    ELSE keepTopFrequencies(image, k)

\* transform.transform2D(..., Direction::Inverse) as the visualizer calls it
Engine_inverse2D(image) ==
    IF image \in DOMAIN InverseOf THEN InverseOf[image]
    ELSE transform2D(image, "Inverse")

\* fourier_transform_->keepTopFrequenciesRGB(...) as the visualizer calls it
Engine_keepTopFrequenciesRGB(rgb, k) ==
    IF rgb \in DOMAIN TopFrequenciesRGBOf /\ k \in Counts
    THEN TopFrequenciesRGBOf[rgb][k]
    ELSE keepTopFrequenciesRGB(rgb, k)

\* fourier_transform_->transformRGB2D(..., Direction::Inverse) as the
\* visualizer calls it
Engine_inverseRGB2D(rgb) ==
    IF rgb \in DOMAIN InverseRGBOf THEN InverseRGBOf[rgb]
    ELSE transformRGB2D(rgb, "Inverse")

\* struct AnimationState, with its default member initializers
AnimationStateDefault ==
    [active_frequencies |-> <<>>,
     reconstructed_image |-> ComplexImage(0, 0),
     reconstructed_rgb_image |-> RGBDefault,
     current_frequency_count |-> 0,
     is_animating |-> FALSE,
     animation_speed |-> 1,
     time_accumulator |-> 0,
     is_rgb |-> FALSE]

NoCall == [op |-> "none", changed |-> FALSE, calls |-> 0, reconstructions |-> 0]
NoProbe == [fn |-> "none"]

\* FourierVisualizer::FourierVisualizer
Init ==
    /\ frequency_domain_ = ComplexImage(0, 0)
    /\ rgb_frequency_domain_ = RGBDefault
    /\ animation_state_ = AnimationStateDefault
    /\ lastOp = NoCall
    /\ probe = NoProbe

\* resetAnimationState that forgets to clear the elapsed-time accumulator
resetAnimationState_KeepTime(state, is_rgb) ==
    [state EXCEPT !.active_frequencies = <<>>,
                  !.current_frequency_count = 0,
                  !.is_rgb = is_rgb]

\* FourierVisualizer::resetAnimationState (inlined in setImage / setRGBImage)
resetAnimationState(state, is_rgb) ==
    [state EXCEPT !.active_frequencies = <<>>,
                  !.current_frequency_count = 0,
                  !.time_accumulator = 0,
                  !.is_rgb = is_rgb]

\* reconstructFromFrequencies that also clears the RGB reconstruction
reconstructFromFrequencies_AlsoRGB(fd, state) ==
    LET filtered_freq == Engine_keepTopFrequencies(fd, state.current_frequency_count)
    IN  [state EXCEPT
            !.reconstructed_image = Engine_inverse2D(filtered_freq),
            !.reconstructed_rgb_image = RGBDefault,
            !.active_frequencies =
                Engine_getTopFrequencyIndices(fd, state.current_frequency_count)]

\* FourierVisualizer::reconstructFromFrequencies
reconstructFromFrequencies(fd, state) ==
    LET filtered_freq == Engine_keepTopFrequencies(fd, state.current_frequency_count)
    IN  [state EXCEPT
            !.reconstructed_image = Engine_inverse2D(filtered_freq),
            !.active_frequencies =
                Engine_getTopFrequencyIndices(fd, state.current_frequency_count)]

\* reconstructRGBFromFrequencies that takes the list from the green channel
reconstructRGBFromFrequencies_GreenList(rgb, state) ==
    LET filtered == Engine_keepTopFrequenciesRGB(rgb, state.current_frequency_count)
    IN  [state EXCEPT
            !.reconstructed_rgb_image = Engine_inverseRGB2D(filtered),
            !.active_frequencies =
                Engine_getTopFrequencyIndices(getChannel(rgb, 1),
                                       state.current_frequency_count)]

\* FourierVisualizer::reconstructRGBFromFrequencies
reconstructRGBFromFrequencies(rgb, state) ==
    LET filtered == Engine_keepTopFrequenciesRGB(rgb, state.current_frequency_count)
    IN  [state EXCEPT
            !.reconstructed_rgb_image = Engine_inverseRGB2D(filtered),
            !.active_frequencies =
                Engine_getTopFrequencyIndices(getChannel(rgb, 0),
                                       state.current_frequency_count)]

\* setFrequencyCount without the count != current_frequency_count test
DoSetFrequencyCount_Always(fd, rgb, state, count) ==
    LET counted == [state EXCEPT !.current_frequency_count = count]
    IN  [state |-> IF counted.is_rgb
                   THEN reconstructRGBFromFrequencies(rgb, counted)
                   ELSE reconstructFromFrequencies(fd, counted),
         reconstructions |-> 1]

\* FourierVisualizer::setFrequencyCount on the fields fd, rgb, state; the
\* result carries the number of reconstruct* calls made
DoSetFrequencyCount(fd, rgb, state, count) ==
    IF count # state.current_frequency_count
    THEN LET counted == [state EXCEPT !.current_frequency_count = count]
         IN  [state |-> IF counted.is_rgb
                        THEN reconstructRGBFromFrequencies(rgb, counted)
                        ELSE reconstructFromFrequencies(fd, counted),
              reconstructions |-> 1]
    ELSE [state |-> state, reconstructions |-> 0]

\* updateAnimation: the outcome of its one call of setFrequencyCount
CountedCall(r) ==
    [state |-> r.state, calls |-> 1, reconstructions |-> r.reconstructions]

\* updateAnimation: the ceiling std::min clamps target_count to
AnimationCeiling(fd, rgb, state) == fd.width * fd.height

\* updateAnimation without the is_animating test
DoUpdateAnimation_NoGuard(fd, rgb, state, delta_time) ==
    LET timed == [state EXCEPT !.time_accumulator =
                     @ + delta_time * state.animation_speed]
        target_count == Min(TargetCount(timed.time_accumulator),
                            AnimationCeiling(fd, rgb, timed))
    IN  IF target_count # timed.current_frequency_count
        THEN CountedCall(DoSetFrequencyCount(fd, rgb, timed, target_count))
        ELSE [state |-> timed, calls |-> 0, reconstructions |-> 0]

\* FourierVisualizer::updateAnimation on the fields fd, rgb, state; the result
\* carries the number of setFrequencyCount and reconstruct* calls made
DoUpdateAnimation(fd, rgb, state, delta_time) ==
    IF ~state.is_animating
    THEN [state |-> state, calls |-> 0, reconstructions |-> 0]
    ELSE LET timed == [state EXCEPT !.time_accumulator =
                          @ + delta_time * state.animation_speed]
             target_count == Min(TargetCount(timed.time_accumulator),
                                 AnimationCeiling(fd, rgb, timed))
         IN  IF target_count # timed.current_frequency_count
             THEN CountedCall(DoSetFrequencyCount(fd, rgb, timed, target_count))
             ELSE [state |-> timed, calls |-> 0, reconstructions |-> 0]

\* FourierVisualizer::setImage
setImage(frequency_domain) ==
    /\ frequency_domain_' = frequency_domain
    /\ animation_state_' =
          [resetAnimationState(animation_state_, FALSE) EXCEPT
              !.reconstructed_image =
                  ComplexImage(frequency_domain.width, frequency_domain.height)]
    /\ lastOp' = [op |-> "setImage", changed |-> FALSE, calls |-> 0, reconstructions |-> 0]
    /\ UNCHANGED <<rgb_frequency_domain_, probe>>

\* FourierVisualizer::setRGBImage
setRGBImage(frequency_domain) ==
    /\ rgb_frequency_domain_' = frequency_domain
    /\ animation_state_' =
          [resetAnimationState(animation_state_, TRUE) EXCEPT
              !.reconstructed_rgb_image =
                  RGBComplexImage(frequency_domain.width, frequency_domain.height)]
    /\ lastOp' = [op |-> "setRGBImage", changed |-> FALSE, calls |-> 0, reconstructions |-> 0]
    /\ UNCHANGED <<frequency_domain_, probe>>

\* FourierVisualizer::setFrequencyCount
setFrequencyCount(count) ==
    \E r \in {DoSetFrequencyCount(frequency_domain_, rgb_frequency_domain_,
                                  animation_state_, count)} :
        /\ animation_state_' = r.state
        /\ lastOp' = [op |-> "setFrequencyCount",
                      changed |-> count # animation_state_.current_frequency_count,
                      calls |-> 0,
                      reconstructions |-> r.reconstructions]
        /\ UNCHANGED <<frequency_domain_, rgb_frequency_domain_, probe>>

\* FourierVisualizer::updateAnimation
updateAnimation(delta_time) ==
    \E r \in {DoUpdateAnimation(frequency_domain_, rgb_frequency_domain_,
                                animation_state_, delta_time)} :
        /\ r.state.time_accumulator <= MaxTime
        /\ animation_state_' = r.state
        /\ lastOp' = [op |-> "updateAnimation", changed |-> FALSE,
                      calls |-> r.calls, reconstructions |-> r.reconstructions]
        /\ UNCHANGED <<frequency_domain_, rgb_frequency_domain_, probe>>

\* getAnimationState().is_animating = value
setAnimating(value) ==
    /\ animation_state_.is_animating # value
    /\ animation_state_' = [animation_state_ EXCEPT !.is_animating = value]
    /\ lastOp' = [op |-> "setAnimating", changed |-> FALSE, calls |-> 0, reconstructions |-> 0]
    /\ UNCHANGED <<frequency_domain_, rgb_frequency_domain_, probe>>

\* getAnimationState().animation_speed = value
setSpeed(value) ==
    /\ animation_state_.animation_speed # value
    /\ animation_state_' = [animation_state_ EXCEPT !.animation_speed = value]
    /\ lastOp' = [op |-> "setSpeed", changed |-> FALSE, calls |-> 0, reconstructions |-> 0]
    /\ UNCHANGED <<frequency_domain_, rgb_frequency_domain_, probe>>

Next ==
    \/ \E image \in GrayImages : setImage(image)
    \/ \E image \in RGBImages : setRGBImage(image)
    \/ \E count \in 0..MaxCount : setFrequencyCount(count)
    \/ \E delta_time \in 0..MaxDelta : updateAnimation(delta_time)
    \/ \E value \in BOOLEAN : setAnimating(value)
    \/ \E value \in Speeds : setSpeed(value)

Spec == Init /\ [][Next]_vars

(* The animation sweep: an image is loaded and the speed chosen while the   *)
(* animation is off; once it is on, the frame loop only calls              *)
(* updateAnimation with a positive frame time.                             *)

SweepLoadImage ==
    /\ ~animation_state_.is_animating
    /\ \E image \in GrayImages : setImage(image)

SweepLoadRGBImage ==
    /\ ~animation_state_.is_animating
    /\ \E image \in RGBImages : setRGBImage(image)

SweepSetSpeed ==
    /\ ~animation_state_.is_animating
    /\ \E value \in Speeds : setSpeed(value)

SweepStart ==
    /\ ~animation_state_.is_animating
    /\ setAnimating(TRUE)

SweepFrame ==
    /\ animation_state_.is_animating
    /\ \E delta_time \in 1..MaxDelta : updateAnimation(delta_time)

NextSweep ==
    \/ SweepLoadImage
    \/ SweepLoadRGBImage
    \/ SweepSetSpeed
    \/ SweepStart
    \/ SweepFrame

\* the frame loop keeps calling updateAnimation while the animation is on
SpecSweep == Init /\ [][NextSweep]_vars /\ WF_vars(SweepFrame)

\* FourierVisualizer::getMagnitudeSpectrum
getMagnitudeSpectrum == getMagnitudeImage(frequency_domain_)

\* FourierVisualizer::getPhaseSpectrum
getPhaseSpectrum == getPhaseImage(frequency_domain_)

\* buildVisualizationLines: one VisualizationLine per active frequency; the
\* magnitude and the frequency are carried as their squares
buildVisualizationLines(freqDomain, width, height) ==
    [i \in 1..Len(animation_state_.active_frequencies) |->
        LET u == animation_state_.active_frequencies[i][1]
            v == animation_state_.active_frequencies[i][2]
            centerX == Rat(freqDomain.width, 2)
            centerY == Rat(freqDomain.height, 2)
            scaleX == RDiv(Rat(width, 1), Rat(freqDomain.width, 1))
            scaleY == RDiv(Rat(height, 1), Rat(freqDomain.height, 1))
            screenX == RMul(RAdd(Rat(u, 1), centerX), scaleX)
            screenY == RMul(RAdd(Rat(v, 1), centerY), scaleY)
        IN  [x1 |-> Rat(width, 2),
             y1 |-> Rat(height, 2),
             x2 |-> Clamp(screenX, RZero, Rat(width, 1)),
             y2 |-> Clamp(screenY, RZero, Rat(height, 1)),
             magnitude |-> MagSq(at(freqDomain, u, v)),
             phase |-> Arg(at(freqDomain, u, v)),
             frequency |-> u * u + v * v]]

\* getVisualizationLines that reads the gray image in every mode
getVisualizationLines_Gray(width, height) ==
    IF frequency_domain_.width <= 0 THEN <<>>
    ELSE buildVisualizationLines(frequency_domain_, width, height)

\* FourierVisualizer::getVisualizationLines
getVisualizationLines(width, height) ==
    IF animation_state_.is_rgb
    THEN IF getChannel(rgb_frequency_domain_, 0).width <= 0 THEN <<>>
         ELSE buildVisualizationLines(getChannel(rgb_frequency_domain_, 0),
                                      width, height)
    ELSE IF frequency_domain_.width <= 0 THEN <<>>
         ELSE buildVisualizationLines(frequency_domain_, width, height)

\* (width, height) of the canvases the lines are asked for
CanvasSizes == { <<4, 2>>, <<3, 5>>, <<0, 0>> }

----------------------------------------------------------------------------
(* Calls of getTopFrequencyIndices on arbitrary small images               *)

MaxProbeCount == 5       \* largest num_frequencies of a probed call

ProbeLengths == {0, 1, 2}
ProbeSamples == {CInt(0, 0), CInt(1, 0), CInt(0, 1), CInt(-2, 0)}

ProbeImages ==
    UNION { { [width |-> w, height |-> h, data |-> d] :
                d \in [1..(w * h) -> ProbeSamples] } :
            w \in ProbeLengths, h \in ProbeLengths }

InitTopK ==
    /\ frequency_domain_ = ComplexImage(0, 0)
    /\ rgb_frequency_domain_ = RGBDefault
    /\ animation_state_ = AnimationStateDefault
    /\ lastOp = NoCall
    /\ \E image \in ProbeImages, count \in 0..MaxProbeCount :
          probe = [fn |-> "getTopFrequencyIndices", image |-> image,
                   count |-> count, done |-> FALSE, result |-> <<>>]

\* a call of FourierTransform::getTopFrequencyIndices
CallGetTopFrequencyIndices ==
    /\ probe.fn = "getTopFrequencyIndices"
    /\ ~probe.done
    /\ probe' = [probe EXCEPT !.done = TRUE,
                              !.result = getTopFrequencyIndices(probe.image, probe.count)]
    /\ UNCHANGED <<frequency_domain_, rgb_frequency_domain_, animation_state_, lastOp>>

NextTopK == CallGetTopFrequencyIndices

SpecTopK == InitTopK /\ [][NextTopK]_vars

----------------------------------------------------------------------------
(* Calls of keepTopFrequencies on arbitrary small images                   *)

InitKeepTop ==
    /\ frequency_domain_ = ComplexImage(0, 0)
    /\ rgb_frequency_domain_ = RGBDefault
    /\ animation_state_ = AnimationStateDefault
    /\ lastOp = NoCall
    /\ \E image \in ProbeImages, count \in 0..MaxProbeCount :
          probe = [fn |-> "keepTopFrequencies", frequency_domain |-> image,
                   num_frequencies |-> count, done |-> FALSE,
                   result |-> ComplexImage(0, 0)]

\* a call of FourierTransform::keepTopFrequencies
CallKeepTopFrequencies ==
    /\ probe.fn = "keepTopFrequencies"
    /\ ~probe.done
    /\ probe' = [probe EXCEPT
                    !.done = TRUE,
                    !.result = keepTopFrequencies(probe.frequency_domain,
                                                  probe.num_frequencies)]
    /\ UNCHANGED <<frequency_domain_, rgb_frequency_domain_, animation_state_, lastOp>>

NextKeepTop == CallKeepTopFrequencies

SpecKeepTop == InitKeepTop /\ [][NextKeepTop]_vars

----------------------------------------------------------------------------
(* Chains of transform2D, fftShift and ifftShift on one image              *)

MaxOps == 2              \* longest chain of calls on one image

TransformSamples == {CInt(0, 0), CInt(1, 0), CInt(-2, 0), CInt(0, 1)}

\* images of one sample value
Constant(width, height, c) ==
    [width |-> width, height |-> height, data |-> [i \in 1..(width * height) |-> c]]

\* every image of at most three samples and every 2 x 2 image over
\* TransformSamples, the zero-area images, and some larger ones
TransformImages ==
    UNION { { [width |-> d[1], height |-> d[2], data |-> data] :
                data \in [1..(d[1] * d[2]) -> TransformSamples] } :
            d \in {<<0, 0>>, <<0, 1>>, <<0, 2>>, <<1, 0>>, <<3, 0>>,
                   <<1, 1>>, <<1, 2>>, <<2, 1>>, <<1, 3>>, <<3, 1>>, <<2, 2>>} }
    \cup { Constant(d[1], d[2], c) :
              d \in {<<4, 1>>, <<2, 3>>, <<4, 2>>, <<3, 3>>, <<4, 4>>},
              c \in {CInt(3, 0), CInt(0, -1)} }
    \cup { MakeImage(3, 2, <<<<1, 0>>, <<2, 0>>, <<3, 0>>, <<4, 0>>, <<0, 0>>, <<-1, 0>>>>),
           MakeImage(2, 3, <<<<1, 0>>, <<0, 0>>, <<0, 0>>, <<2, 0>>, <<5, 0>>, <<1, 0>>>>),
           MakeImage(4, 1, <<<<1, 0>>, <<2, 0>>, <<0, 0>>, <<-1, 0>>>>),
           MakeImage(1, 4, <<<<0, 1>>, <<2, 0>>, <<1, 1>>, <<-1, 0>>>>),
           MakeImage(4, 2, <<<<1, 0>>, <<2, 0>>, <<3, 0>>, <<4, 0>>,
                             <<5, 0>>, <<6, 0>>, <<7, 0>>, <<8, 0>>>>),
           MakeImage(3, 3, <<<<1, 0>>, <<0, 0>>, <<2, 0>>, <<0, 0>>, <<1, 0>>,
                             <<0, 0>>, <<3, 0>>, <<0, 0>>, <<1, 0>>>>) }

InitTransform ==
    /\ frequency_domain_ = ComplexImage(0, 0)
    /\ rgb_frequency_domain_ = RGBDefault
    /\ animation_state_ = AnimationStateDefault
    /\ lastOp = NoCall
    /\ \E image \in TransformImages :
          probe = [fn |-> "transform2D", original |-> image, image |-> image,
                   ops |-> <<>>]

\* image = transform.transform2D(image, direction)
CallTransform2D(direction) ==
    /\ probe.fn = "transform2D"
    /\ Len(probe.ops) < MaxOps
    /\ probe' = [probe EXCEPT !.image = transform2D(probe.image, direction),
                              !.ops = Append(@, direction)]
    /\ UNCHANGED <<frequency_domain_, rgb_frequency_domain_, animation_state_, lastOp>>

\* image.fftShift()
CallFftShift ==
    /\ probe.fn = "transform2D"
    /\ Len(probe.ops) < MaxOps
    /\ probe' = [probe EXCEPT !.image = fftShift(probe.image),
                              !.ops = Append(@, "fftShift")]
    /\ UNCHANGED <<frequency_domain_, rgb_frequency_domain_, animation_state_, lastOp>>

\* image.ifftShift()
CallIfftShift ==
    /\ probe.fn = "transform2D"
    /\ Len(probe.ops) < MaxOps
    /\ probe' = [probe EXCEPT !.image = ifftShift(probe.image),
                              !.ops = Append(@, "ifftShift")]
    /\ UNCHANGED <<frequency_domain_, rgb_frequency_domain_, animation_state_, lastOp>>

NextTransform ==
    \/ \E direction \in Direction : CallTransform2D(direction)
    \/ CallFftShift
    \/ CallIfftShift

SpecTransform == InitTransform /\ [][NextTransform]_vars

----------------------------------------------------------------------------
(* A ComplexImage object under its mutating member functions               *)

MaxImageCalls == 3       \* calls made on the object after its construction
MaxLength == 3           \* largest width or height given to resize

\* (grayscale_data, width, height) arguments of setFromGrayscale
GrayscaleInputs ==
    { <<<<>>, 0, 0>>, <<<<255>>, 1, 1>>, <<<<255, 51>>, 2, 1>>,
      <<<<0, 102>>, 1, 2>>, <<<<255, 51, 102>>, 1, 2>>, <<<<0, 0, 0>>, 3, 1>>,
      <<<<51, 0, 255, 102>>, 2, 2>>, <<<<0, 51, 102, 51, 0, 51>>, 3, 2>> }

\* ComplexImage(), ComplexImage(width, height),
\* ComplexImage(grayscale_data, width, height)
InitImage ==
    /\ frequency_domain_ = ComplexImage(0, 0)
    /\ rgb_frequency_domain_ = RGBDefault
    /\ animation_state_ = AnimationStateDefault
    /\ lastOp = NoCall
    /\ \E image \in
            {ComplexImage(w, h) : w \in 0..2, h \in 0..2}
                \cup {setFromGrayscale(ComplexImage(g[2], g[3]), g[1], g[2], g[3]) :
                         g \in GrayscaleInputs} :
          probe = [fn |-> "ComplexImage", image |-> image, last |-> "ComplexImage",
                   calls |-> 0]

\* image.resize(width, height)
CallResize(width, height) ==
    /\ probe.fn = "ComplexImage"
    /\ probe.calls < MaxImageCalls
    /\ probe' = [probe EXCEPT !.image = resize(probe.image, width, height),
                              !.last = "resize", !.calls = @ + 1]
    /\ UNCHANGED <<frequency_domain_, rgb_frequency_domain_, animation_state_, lastOp>>

\* image.setFromGrayscale(grayscale_data, width, height)
CallSetFromGrayscale(grayscale_data, width, height) ==
    /\ probe.fn = "ComplexImage"
    /\ probe.calls < MaxImageCalls
    /\ probe' = [probe EXCEPT !.image = setFromGrayscale(probe.image, grayscale_data,
                                                              width, height),
                              !.last = "setFromGrayscale", !.calls = @ + 1]
    /\ UNCHANGED <<frequency_domain_, rgb_frequency_domain_, animation_state_, lastOp>>

\* image.normalize()
CallNormalize ==
    /\ probe.fn = "ComplexImage"
    /\ probe.calls < MaxImageCalls
    /\ probe' = [probe EXCEPT !.image = normalize(probe.image),
                              !.last = "normalize", !.calls = @ + 1]
    /\ UNCHANGED <<frequency_domain_, rgb_frequency_domain_, animation_state_, lastOp>>

\* image.fftShift()
CallImageFftShift ==
    /\ probe.fn = "ComplexImage"
    /\ probe.calls < MaxImageCalls
    /\ probe' = [probe EXCEPT !.image = fftShift(probe.image),
                              !.last = "fftShift", !.calls = @ + 1]
    /\ UNCHANGED <<frequency_domain_, rgb_frequency_domain_, animation_state_, lastOp>>

\* image.ifftShift()
CallImageIfftShift ==
    /\ probe.fn = "ComplexImage"
    /\ probe.calls < MaxImageCalls
    /\ probe' = [probe EXCEPT !.image = ifftShift(probe.image),
                              !.last = "ifftShift", !.calls = @ + 1]
    /\ UNCHANGED <<frequency_domain_, rgb_frequency_domain_, animation_state_, lastOp>>

NextImage ==
    \/ \E width \in 0..MaxLength, height \in 0..MaxLength : CallResize(width, height)
    \/ \E g \in GrayscaleInputs : CallSetFromGrayscale(g[1], g[2], g[3])
    \/ CallNormalize
    \/ CallImageFftShift
    \/ CallImageIfftShift

SpecImage == InitImage /\ [][NextImage]_vars

----------------------------------------------------------------------------
(* An RGBComplexImage object under setFromRGB, transformRGB2D and          *)
(* keepTopFrequenciesRGB; transformRGB2D runs its three tasks concurrently *)

MaxRGBCalls == 2         \* calls made on the object after its construction
MaxRGBCount == 2         \* largest num_frequencies given to keepTopFrequenciesRGB

\* (rgbData, width, height) arguments of setFromRGB: 0xFF3300FF,
\* 0x00FF66FF, 0x336600FF, 0x000000FF
RGBInputs ==
    { <<<<>>, 0, 0>>,
      <<<<<<65331, 255>>>>, 1, 1>>,
      <<<<<<65331, 255>>, <<255, 26367>>>>, 2, 1>>,
      <<<<<<13158, 255>>, <<0, 255>>>>, 1, 2>> }

NoFuture == [state |-> "none", value |-> ComplexImage(0, 0)]

\* no call of transformRGB2D in progress
NoTransform ==
    [pc |-> "idle", direction |-> "Forward", input |-> RGBDefault,
     result |-> RGBDefault, launched |-> 0, collected |-> 0,
     futures |-> [c \in 0..2 |-> NoFuture], order |-> <<>>]

\* RGBComplexImage(), RGBComplexImage(width, height)
InitRGB ==
    /\ frequency_domain_ = ComplexImage(0, 0)
    /\ rgb_frequency_domain_ = RGBDefault
    /\ animation_state_ = AnimationStateDefault
    /\ lastOp = NoCall
    /\ \E rgb \in {RGBDefault} \cup {RGBComplexImage(w, h) : w \in 0..2, h \in 0..2} :
          probe = [fn |-> "RGBComplexImage", rgb |-> rgb, last |-> "RGBComplexImage",
                   calls |-> 0, transform |-> NoTransform]

\* rgb.setFromRGB(rgbData, width, height)
CallSetFromRGB(rgbData, width, height) ==
    /\ probe.fn = "RGBComplexImage"
    /\ probe.transform.pc = "idle"
    /\ probe.calls < MaxRGBCalls
    /\ probe' = [probe EXCEPT !.rgb = setFromRGB(probe.rgb, rgbData, width, height),
                              !.last = "setFromRGB", !.calls = @ + 1]
    /\ UNCHANGED <<frequency_domain_, rgb_frequency_domain_, animation_state_, lastOp>>

\* rgb = transform.keepTopFrequenciesRGB(rgb, num_frequencies)
CallKeepTopFrequenciesRGB(num_frequencies) ==
    /\ probe.fn = "RGBComplexImage"
    /\ probe.transform.pc = "idle"
    /\ probe.calls < MaxRGBCalls
    /\ probe' = [probe EXCEPT !.rgb = keepTopFrequenciesRGB(probe.rgb, num_frequencies),
                              !.last = "keepTopFrequenciesRGB", !.calls = @ + 1]
    /\ UNCHANGED <<frequency_domain_, rgb_frequency_domain_, animation_state_, lastOp>>

\* transformRGB2D(rgb, direction) is entered: RGBComplexImage result(...)
EnterTransformRGB2D(direction) ==
    /\ probe.fn = "RGBComplexImage"
    /\ probe.transform.pc = "idle"
    /\ probe.calls < MaxRGBCalls
    /\ probe' = [probe EXCEPT
                    !.calls = @ + 1,
                    !.transform =
                        [NoTransform EXCEPT
                            !.pc = "launch", !.direction = direction,
                            !.input = probe.rgb,
                            !.result = RGBComplexImage(probe.rgb.width,
                                                       probe.rgb.height)]]
    /\ UNCHANGED <<frequency_domain_, rgb_frequency_domain_, animation_state_, lastOp>>

\* transformRGB2D: std::async(std::launch::async, ...) for the next channel
LaunchTask ==
    /\ probe.fn = "RGBComplexImage"
    /\ probe.transform.pc = "launch"
    /\ LET t == probe.transform
       IN  probe' = [probe EXCEPT
                       !.transform.futures[t.launched].state = "running",
                       !.transform.launched = @ + 1,
                       !.transform.pc = IF t.launched = 2 THEN "collect" ELSE "launch"]
    /\ UNCHANGED <<frequency_domain_, rgb_frequency_domain_, animation_state_, lastOp>>

\* the task of one channel runs to its end and makes its future ready
RunTask(channel) ==
    /\ probe.fn = "RGBComplexImage"
    /\ probe.transform.futures[channel].state = "running"
    /\ LET t == probe.transform
       IN  probe' = [probe EXCEPT
                       !.transform.futures[channel] =
                           [state |-> "ready",
                            value |-> ChannelTask(t.input, channel, t.direction)],
                       !.transform.order = Append(@, channel)]
    /\ UNCHANGED <<frequency_domain_, rgb_frequency_domain_, animation_state_, lastOp>>

\* transformRGB2D: result.getChannel(channel) = future.get(), which waits
\* for the future to be ready
CollectFuture ==
    /\ probe.fn = "RGBComplexImage"
    /\ probe.transform.pc = "collect"
    /\ LET t == probe.transform
       IN  /\ t.futures[t.collected].state = "ready"
           /\ probe' = [probe EXCEPT
                          !.transform.result =
                              CollectChannel(t.result, t.collected,
                                             t.futures[t.collected].value),
                          !.transform.collected = @ + 1,
                          !.transform.pc = IF t.collected = 2 THEN "returned"
                                           ELSE "collect"]
    /\ UNCHANGED <<frequency_domain_, rgb_frequency_domain_, animation_state_, lastOp>>

\* transformRGB2D: return result, which the caller keeps as rgb
ReturnTransformRGB2D ==
    /\ probe.fn = "RGBComplexImage"
    /\ probe.transform.pc = "returned"
    /\ probe' = [probe EXCEPT !.rgb = probe.transform.result,
                              !.last = "transformRGB2D",
                              !.transform.pc = "idle"]
    /\ UNCHANGED <<frequency_domain_, rgb_frequency_domain_, animation_state_, lastOp>>

NextRGB ==
    \/ \E g \in RGBInputs : CallSetFromRGB(g[1], g[2], g[3])
    \/ \E num_frequencies \in 0..MaxRGBCount : CallKeepTopFrequenciesRGB(num_frequencies)
    \/ \E direction \in Direction : EnterTransformRGB2D(direction)
    \/ LaunchTask
    \/ \E channel \in 0..2 : RunTask(channel)
    \/ CollectFuture
    \/ ReturnTransformRGB2D

SpecRGB == InitRGB /\ [][NextRGB]_vars

----------------------------------------------------------------------------
(* Calls of fft1D on sequences of every modelled length                    *)

\* the lengths whose twiddle factors are multiples of 30 degrees
FftLengths == {0, 1, 2, 3, 4}

\* the std::span<Complex> arguments: every sequence over TransformSamples
FftSequences ==
    UNION { [1..n -> TransformSamples] : n \in FftLengths }

InitFft ==
    /\ frequency_domain_ = ComplexImage(0, 0)
    /\ rgb_frequency_domain_ = RGBDefault
    /\ animation_state_ = AnimationStateDefault
    /\ lastOp = NoCall
    /\ \E data \in FftSequences :
          probe = [fn |-> "fft1D", original |-> data, data |-> data,
                   direction |-> "Forward", done |-> FALSE]

\* fft1D(data, direction), which transforms data in place
CallFft1D(direction) ==
    /\ probe.fn = "fft1D"
    /\ ~probe.done
    /\ probe' = [probe EXCEPT !.data = fft1D(probe.data, direction),
                              !.direction = direction,
                              !.done = TRUE]
    /\ UNCHANGED <<frequency_domain_, rgb_frequency_domain_, animation_state_, lastOp>>

NextFft == \E direction \in Direction : CallFft1D(direction)

SpecFft == InitFft /\ [][NextFft]_vars

----------------------------------------------------------------------------
(* Calls of applyFrequencyMask                                             *)

\* frequency_cutoff arguments: -1, 0, 1/2, 1, 3/2, 2, 3
MaskCutoffs ==
    { Rat(-1, 1), Rat(0, 1), Rat(1, 2), Rat(1, 1), Rat(3, 2), Rat(2, 1), Rat(3, 1) }

InitMask ==
    /\ frequency_domain_ = ComplexImage(0, 0)
    /\ rgb_frequency_domain_ = RGBDefault
    /\ animation_state_ = AnimationStateDefault
    /\ lastOp = NoCall
    /\ \E image \in TransformImages :
          probe = [fn |-> "applyFrequencyMask", original |-> image,
                   frequency_domain |-> image, frequency_cutoff |-> RZero,
                   low_pass |-> FALSE, done |-> FALSE,
                   result |-> ComplexImage(0, 0)]

\* result = transform.applyFrequencyMask(frequency_domain, cutoff, low_pass)
CallApplyFrequencyMask(frequency_cutoff, low_pass) ==
    /\ probe.fn = "applyFrequencyMask"
    /\ ~probe.done
    /\ probe' = [probe EXCEPT
                    !.frequency_cutoff = frequency_cutoff,
                    !.low_pass = low_pass,
                    !.done = TRUE,
                    !.result = applyFrequencyMask(probe.frequency_domain,
                                                  frequency_cutoff, low_pass)]
    /\ UNCHANGED <<frequency_domain_, rgb_frequency_domain_, animation_state_, lastOp>>

NextMask ==
    \E frequency_cutoff \in MaskCutoffs, low_pass \in BOOLEAN :
        CallApplyFrequencyMask(frequency_cutoff, low_pass)

SpecMask == InitMask /\ [][NextMask]_vars

----------------------------------------------------------------------------
(* Packed pixels through setFromRGB and back through toRGB                 *)

\* 32-bit words 0xFF3300FF, 0x00FF6600, 0x01FE8012, 0x00000000, 0xFFFFFFFF
PixelWords ==
    { <<65331, 255>>, <<255, 26112>>, <<510, 32786>>, <<0, 0>>, <<65535, 65535>> }

PixelDimensions == { <<0, 0>>, <<1, 1>>, <<2, 1>>, <<1, 2>> }

\* (rgbData, width, height) with rgbData of width * height words
PixelInputs ==
    UNION { { <<rgbData, d[1], d[2]>> : rgbData \in [1..(d[1] * d[2]) -> PixelWords] } :
            d \in PixelDimensions }

\* the objects the calls start from: a default one and one whose samples
\* lie outside [0, 1] or off the real axis
PixelObjects ==
    { RGBDefault,
      MakeRGB(1, 1, <<<<2, 0>>>>, <<<<-1, 0>>>>, <<<<0, 1>>>>) }

InitPixels ==
    /\ frequency_domain_ = ComplexImage(0, 0)
    /\ rgb_frequency_domain_ = RGBDefault
    /\ animation_state_ = AnimationStateDefault
    /\ lastOp = NoCall
    /\ \E rgb \in PixelObjects :
          probe = [fn |-> "toRGB", rgb |-> rgb, rgbData |-> <<>>, set |-> FALSE,
                   last |-> "none", output |-> <<>>]

\* rgb.setFromRGB(rgbData, width, height)
PixelsSetFromRGB(rgbData, width, height) ==
    /\ probe.fn = "toRGB"
    /\ probe' = [probe EXCEPT !.rgb = setFromRGB(probe.rgb, rgbData, width, height),
                              !.rgbData = rgbData, !.set = TRUE,
                              !.last = "setFromRGB"]
    /\ UNCHANGED <<frequency_domain_, rgb_frequency_domain_, animation_state_, lastOp>>

\* output = rgb.toRGB()
PixelsToRGB ==
    /\ probe.fn = "toRGB"
    /\ probe' = [probe EXCEPT !.output = toRGB(probe.rgb), !.last = "toRGB"]
    /\ UNCHANGED <<frequency_domain_, rgb_frequency_domain_, animation_state_, lastOp>>

NextPixels ==
    \/ \E input \in PixelInputs : PixelsSetFromRGB(input[1], input[2], input[3])
    \/ PixelsToRGB

SpecPixels == InitPixels /\ [][NextPixels]_vars

----------------------------------------------------------------------------
(* Progressive reconstruction of one image: F = forward(I), then the        *)
(* inverse transform of keepTopFrequencies(F, k) for k = 0, 1, ..., W x H  *)

\* the spatial images reconstructed: those of TransformImages with samples
FidelityImages == {image \in TransformImages : Len(image.data) > 0}

\* the mean of |reconstruction - original|^2 over the samples
MeanSquaredError(reconstruction, original) ==
    LET samples == reconstruction.data \o <<>>
        squares == [i \in 1..Len(original.data) |->
                       Complex(MagSq(CSub(samples[i], original.data[i])), RZero)]
                   \o <<>>
    IN  RDiv(SumFrom(squares, 1).re, Rat(Len(original.data), 1))

\* an image and its forward transform
InitFidelity ==
    /\ frequency_domain_ = ComplexImage(0, 0)
    /\ rgb_frequency_domain_ = RGBDefault
    /\ animation_state_ = AnimationStateDefault
    /\ lastOp = NoCall
    /\ \E image \in FidelityImages :
          probe = [fn |-> "reconstruct", original |-> image,
                   frequency_domain |-> transform2D(image, "Forward"),
                   filtered |-> ComplexImage(image.width, image.height),
                   reconstruction |-> ComplexImage(image.width, image.height),
                   pc |-> "filter", errors |-> <<>>]

\* keepTopFrequencies with the next number of frequencies, k = 0, 1, ...
FilterNext ==
    /\ probe.fn = "reconstruct"
    /\ probe.pc = "filter"
    /\ Len(probe.errors) <= Len(probe.original.data)
    /\ probe' = [probe EXCEPT
                    !.filtered = keepTopFrequencies(probe.frequency_domain,
                                                    Len(probe.errors)),
                    !.pc = "inverse"]
    /\ UNCHANGED <<frequency_domain_, rgb_frequency_domain_, animation_state_, lastOp>>

\* the inverse transform of the filtered spectrum and its error
ReconstructNext ==
    /\ probe.fn = "reconstruct"
    /\ probe.pc = "inverse"
    /\ LET reconstruction == transform2D(probe.filtered, "Inverse")
       IN  probe' = [probe EXCEPT
                       !.reconstruction = reconstruction,
                       !.pc = "filter",
                       !.errors = Append(@, MeanSquaredError(reconstruction,
                                                             probe.original))]
    /\ UNCHANGED <<frequency_domain_, rgb_frequency_domain_, animation_state_, lastOp>>

NextFidelity ==
    \/ FilterNext
    \/ ReconstructNext

SpecFidelity == InitFidelity /\ [][NextFidelity]_vars

----------------------------------------------------------------------------
(* Properties                                                              *)

K == animation_state_.current_frequency_count

ImageSize(image) == image.width * image.height

\* W x H of the image of the current mode
HeldSize ==
    IF animation_state_.is_rgb THEN ImageSize(rgb_frequency_domain_)
    ELSE ImageSize(frequency_domain_)

AllZero(image, width, height) ==
    /\ image.width = width
    /\ image.height = height
    /\ Len(image.data) = width * height
    /\ \A i \in 1..Len(image.data) : image.data[i] = CZero

HasNonZero(image) == \E i \in 1..Len(image.data) : image.data[i] # CZero

\* C1: right after setImage or setRGBImage, whatever the state before, k is
\* 0, the active-frequency list is empty, the elapsed time is 0, the
\* reconstruction of the chosen mode is all-zero with the new image's width
\* and height, and the mode flag is gray after setImage, RGB after setRGBImage.
C1_ResetToLoaded ==
    /\ lastOp.op = "setImage" =>
          /\ K = 0
          /\ animation_state_.active_frequencies = <<>>
          /\ animation_state_.time_accumulator = 0
          /\ ~animation_state_.is_rgb
          /\ AllZero(animation_state_.reconstructed_image,
                     frequency_domain_.width, frequency_domain_.height)
    /\ lastOp.op = "setRGBImage" =>
          /\ K = 0
          /\ animation_state_.active_frequencies = <<>>
          /\ animation_state_.time_accumulator = 0
          /\ animation_state_.is_rgb
          /\ animation_state_.reconstructed_rgb_image.width = rgb_frequency_domain_.width
          /\ animation_state_.reconstructed_rgb_image.height = rgb_frequency_domain_.height
          /\ \A c \in 0..2 :
                AllZero(getChannel(animation_state_.reconstructed_rgb_image, c),
                        rgb_frequency_domain_.width, rgb_frequency_domain_.height)

\* setImage of a 2 x 1 image on a visualizer that had animated an RGB
\* reconstruction before
C1_Witness ==
    /\ lastOp.op = "setImage"
    /\ frequency_domain_.width = 2
    /\ animation_state_.is_animating
    /\ HasNonZero(getChannel(animation_state_.reconstructed_rgb_image, 0))

\* C2: a setFrequencyCount whose argument equals the current count changes
\* no field of the visualizer and calls no reconstruct function.
C2_SameCountNoOp ==
    [][(lastOp'.op = "setFrequencyCount" /\ K' = K) =>
          /\ UNCHANGED <<frequency_domain_, rgb_frequency_domain_, animation_state_>>
          /\ lastOp'.reconstructions = 0]_vars

\* setFrequencyCount(2) on a gray visualizer whose count is 2 already
C2_Witness ==
    /\ lastOp.op = "setFrequencyCount"
    /\ lastOp.reconstructions = 0
    /\ K = 2
    /\ Len(animation_state_.active_frequencies) = 2

\* C3 (as claimed): the current frequency count is in [0, W x H] of the held
\* image in every reachable state.
C3_CountWithinImage == K >= 0 /\ K <= HeldSize

\* C4 (as claimed): in gray mode the reconstruction is the inverse transform
\* of keepTopFrequencies(held, k), the list is getTopFrequencyIndices(held,
\* k); with k = 0 the reconstruction is all-zero and the list empty, with
\* k > 0 the list is populated.
C4_Original ==
    ~animation_state_.is_rgb =>
        /\ animation_state_.reconstructed_image =
              transform2D(keepTopFrequencies(frequency_domain_, K), "Inverse")
        /\ animation_state_.active_frequencies =
              getTopFrequencyIndices(frequency_domain_, K)
        /\ K = 0 => /\ ~HasNonZero(animation_state_.reconstructed_image)
                    /\ animation_state_.active_frequencies = <<>>
        /\ K > 0 => animation_state_.active_frequencies # <<>>

\* C5: in RGB mode, after a setFrequencyCount(k) with k different from the
\* current count every channel of the RGB reconstruction equals the inverse
\* transform of keepTopFrequencies of that channel of the held image, and the
\* list equals getTopFrequencyIndices of channel 0 (red).
C5_RGBReconstruction ==
    (lastOp.op = "setFrequencyCount" /\ lastOp.changed /\ animation_state_.is_rgb) =>
        /\ \A c \in 0..2 :
              getChannel(animation_state_.reconstructed_rgb_image, c) =
                  transform2D(keepTopFrequencies(
                      getChannel(rgb_frequency_domain_, c), K), "Inverse")
        /\ animation_state_.active_frequencies =
              getTopFrequencyIndices(getChannel(rgb_frequency_domain_, 0), K)

\* setFrequencyCount(1) on the 2 x 1 RGB image, whose red and green channels
\* have their largest sample at different coordinates
C5_Witness ==
    /\ animation_state_.is_rgb
    /\ lastOp.op = "setFrequencyCount"
    /\ lastOp.changed
    /\ rgb_frequency_domain_.width = 2
    /\ K = 1
    /\ animation_state_.active_frequencies = <<<<1, 0>>>>
    /\ getTopFrequencyIndices(getChannel(rgb_frequency_domain_, 1), 1) = <<<<0, 0>>>>

\* C6: updateAnimation with the enabled flag false changes nothing, in every
\* state, Idle included.
C6_DisabledNoOp ==
    [][(lastOp'.op = "updateAnimation" /\ ~animation_state_.is_animating) =>
          /\ UNCHANGED <<frequency_domain_, rgb_frequency_domain_, animation_state_>>
          /\ lastOp'.calls = 0
          /\ lastOp'.reconstructions = 0]_vars

\* updateAnimation on a visualizer that animated before and was then disabled
C6_Witness ==
    /\ lastOp.op = "updateAnimation"
    /\ ~animation_state_.is_animating
    /\ animation_state_.time_accumulator > 0
    /\ K > 0

\* C7 (as claimed): with animation enabled updateAnimation(dt) adds dt x speed
\* to the accumulator and leaves k = floor(elapsed x 10) clamped to W x H of
\* the image of the current mode, calling setFrequencyCount only when that
\* target differs from k.
C7_TargetOfHeldImage ==
    [][\A delta_time \in 0..MaxDelta :
          (updateAnimation(delta_time) /\ animation_state_.is_animating) =>
              /\ animation_state_.time_accumulator' =
                    animation_state_.time_accumulator
                        + delta_time * animation_state_.animation_speed
              /\ K' = Min(TargetCount(animation_state_.time_accumulator'), HeldSize)
              /\ lastOp'.calls = IF K' # K THEN 1 ELSE 0]_vars

\* C8 (as claimed): with animation enabled, consecutive updateAnimation calls
\* give non-decreasing counts, each at most W x H of the held image.
C8_MonotoneBounded ==
    [][(lastOp'.op = "updateAnimation" /\ animation_state_.is_animating) =>
          /\ lastOp.op = "updateAnimation" => K' >= K
          /\ K' <= HeldSize]_vars

\* C9 (as claimed): getMagnitudeSpectrum and getPhaseSpectrum return W x H
\* values, those of the held image (in gray mode frequency_domain_, in RGB
\* mode rgb_frequency_domain_).
C9_SpectrumOfHeldImage ==
    /\ Len(getMagnitudeSpectrum) = HeldSize
    /\ Len(getPhaseSpectrum) = HeldSize
    /\ ~animation_state_.is_rgb =>
          /\ getMagnitudeSpectrum = getMagnitudeImage(frequency_domain_)
          /\ getPhaseSpectrum = getPhaseImage(frequency_domain_)

\* C10: getTopFrequencyIndices(freq, k) returns min(k, W x H) coordinates in
\* non-increasing order of magnitude, and no coordinate left out has a larger
\* magnitude than a returned one.
C10_TopKOrdered ==
    probe.fn = "getTopFrequencyIndices" /\ probe.done =>
        LET result == probe.result
            mag(p) == MagSq(at(probe.image, p[1], p[2]))
            returned == {result[i] : i \in 1..Len(result)}
            all == (0..(probe.image.width - 1)) \X (0..(probe.image.height - 1))
        IN  /\ Len(result) = Min(probe.count, ImageSize(probe.image))
            /\ returned \subseteq all
            /\ \A i \in 1..(Len(result) - 1) :
                  ~RLess(mag(result[i]), mag(result[i + 1]))
            /\ \A p \in all \ returned : \A q \in returned :
                  ~RLess(mag(q), mag(p))

\* the two largest of a 2 x 2 image with two samples of magnitude 1, one of
\* magnitude 2 and one of magnitude 0
C10_Witness ==
    /\ probe.fn = "getTopFrequencyIndices"
    /\ probe.done
    /\ probe.count = 2
    /\ probe.image = [width |-> 2, height |-> 2,
                      data |-> <<CInt(1, 0), CInt(-2, 0), CInt(0, 0), CInt(0, 1)>>]
    /\ probe.result = <<<<1, 0>>, <<1, 1>>>>

----------------------------------------------------------------------------
(* FourierTransform, ComplexImage and RGBComplexImage                      *)

\* the coordinates of an image
Coordinates(image) == (0..(image.width - 1)) \X (0..(image.height - 1))

\* C11: keepTopFrequencies(freq, k) returns an image of freq's width and
\* height whose sample is freq's at every coordinate getTopFrequencyIndices(
\* freq, k) selects and zero at every other, so at most k samples are
\* non-zero; freq is as it was before the call.
C11_KeepsSelectedOnly ==
    [][CallKeepTopFrequencies =>
          LET freq == probe.frequency_domain
              k == probe.num_frequencies
              result == probe'.result
              top_indices == getTopFrequencyIndices(freq, k)
              selected == {top_indices[i] : i \in 1..Len(top_indices)}
          IN  /\ result.width = freq.width
              /\ result.height = freq.height
              /\ Len(result.data) = Len(freq.data)
              /\ \A p \in Coordinates(freq) :
                    at(result, p[1], p[2]) =
                        IF p \in selected THEN at(freq, p[1], p[2]) ELSE CZero
              /\ Cardinality({p \in Coordinates(freq) :
                                at(result, p[1], p[2]) # CZero}) <= k
              /\ probe'.frequency_domain = freq]_vars

\* the two largest samples kept of a 2 x 2 image with three non-zero samples
C11_Witness ==
    /\ probe.fn = "keepTopFrequencies"
    /\ probe.done
    /\ probe.num_frequencies = 2
    /\ probe.frequency_domain =
          [width |-> 2, height |-> 2,
           data |-> <<CInt(1, 0), CInt(-2, 0), CInt(0, 0), CInt(0, 1)>>]
    /\ probe.result =
          [width |-> 2, height |-> 2,
           data |-> <<CInt(0, 0), CInt(-2, 0), CInt(0, 0), CInt(0, 1)>>]

IsReal(image) == \A i \in 1..Len(image.data) : image.data[i].im = RZero

IsConstant(image) ==
    \A i \in 1..Len(image.data) : image.data[i] = image.data[1]

\* C12: for a real-valued image I, transform2D(transform2D(I, Forward),
\* Inverse) has I's samples, each equal to I's; the forward transform is not
\* normalized (its (0,0) coefficient is the sum of the samples) and the
\* inverse transform divides by the length of each axis.
C12_RoundTrip ==
    (probe.fn = "transform2D" /\ IsReal(probe.original)) =>
        /\ probe.ops = <<"Forward", "Inverse">> =>
              /\ Len(probe.image.data) = Len(probe.original.data)
              /\ \A i \in 1..Len(probe.original.data) :
                    probe.image.data[i] = probe.original.data[i]
        /\ (probe.ops = <<"Forward">> /\ Len(probe.original.data) > 0) =>
              at(probe.image, 0, 0) = SumFrom(probe.original.data, 1)
        /\ (probe.ops = <<"Inverse">> /\ Len(probe.original.data) > 0) =>
              at(probe.image, 0, 0) =
                  CScale(SumFrom(probe.original.data, 1),
                         Rat(1, probe.original.width * probe.original.height))

\* the round trip of a 3 x 2 image, rows through dft and columns through
\* cooleyTukeyFFT
C12_Witness ==
    /\ probe.fn = "transform2D"
    /\ probe.ops = <<"Forward", "Inverse">>
    /\ probe.original =
          MakeImage(3, 2, <<<<1, 0>>, <<2, 0>>, <<3, 0>>, <<4, 0>>, <<0, 0>>, <<-1, 0>>>>)
    /\ probe.image = probe.original

\* C13 (as claimed): transform2D(image, direction) returns an image of the
\* width and height of its input, for both directions and all dimensions.
C13_SameDimensions ==
    [][\A direction \in Direction :
          CallTransform2D(direction) =>
              /\ probe'.image.width = probe.image.width
              /\ probe'.image.height = probe.image.height]_vars

\* C17: for an image I of even width and even height, fftShift(fftShift(I))
\* = I and ifftShift(fftShift(I)) = I.
C17_ShiftInvolution ==
    (/\ probe.fn = "transform2D"
     /\ probe.original.width % 2 = 0
     /\ probe.original.height % 2 = 0
     /\ probe.ops \in {<<"fftShift", "fftShift">>, <<"fftShift", "ifftShift">>}) =>
        probe.image = probe.original

\* fftShift then ifftShift of a 4 x 2 image that one fftShift changes
C17_Witness ==
    /\ probe.fn = "transform2D"
    /\ probe.ops = <<"fftShift", "ifftShift">>
    /\ probe.original.width = 4
    /\ probe.original.height = 2
    /\ fftShift(probe.original) # probe.original
    /\ probe.image = probe.original

\* C18 (as claimed): the forward transform of a constant image has its only
\* non-zero coefficient at (0,0), the sum of the samples; after fftShift that
\* coefficient is at (W/2, H/2) and no coefficient has a larger magnitude.
C18_DCAtCentre ==
    (/\ probe.fn = "transform2D"
     /\ Len(probe.original.data) > 0
     /\ IsConstant(probe.original)) =>
        LET sum == SumFrom(probe.original.data, 1)
            cx == probe.original.width \div 2
            cy == probe.original.height \div 2
        IN  /\ probe.ops = <<"Forward">> =>
                  \A p \in Coordinates(probe.image) :
                      at(probe.image, p[1], p[2]) =
                          IF p = <<0, 0>> THEN sum ELSE CZero
            /\ probe.ops = <<"Forward", "fftShift">> =>
                  /\ at(probe.image, cx, cy) = sum
                  /\ \A p \in Coordinates(probe.image) :
                        ~RLess(MagSq(at(probe.image, cx, cy)),
                               MagSq(at(probe.image, p[1], p[2])))

\* C14 (as claimed): transform2D of a zero-area image is a zero-area image;
\* getTopFrequencyIndices of an image of fewer than k pixels returns all its
\* pixels, none for a zero-area image; on a visualizer holding a zero-area
\* image setFrequencyCount and updateAnimation return, with nothing selected
\* and nothing reconstructed, and getMagnitudeSpectrum is empty.
C14_ZeroAreaHandled ==
    HeldSize = 0 =>
        LET held == IF animation_state_.is_rgb
                    THEN getChannel(rgb_frequency_domain_, 0)
                    ELSE frequency_domain_
        IN  /\ \A direction \in Direction :
                  ImageSize(transform2D(held, direction)) = 0
            /\ getTopFrequencyIndices(held, K) = <<>>
            /\ lastOp.op \in {"setFrequencyCount", "updateAnimation"} =>
                  /\ animation_state_.active_frequencies = <<>>
                  /\ ~animation_state_.is_rgb =>
                        animation_state_.reconstructed_image.data = <<>>
                  /\ animation_state_.is_rgb =>
                        \A c \in 0..2 :
                            getChannel(animation_state_.reconstructed_rgb_image,
                                       c).data = <<>>
            /\ getMagnitudeSpectrum = <<>>

\* C15: after construction and after every sequence of resize,
\* setFromGrayscale, normalize, fftShift and ifftShift calls the buffer of a
\* ComplexImage has width x height samples.
C15_BufferMatchesDimensions ==
    probe.fn = "ComplexImage" =>
        Len(probe.image.data) = probe.image.width * probe.image.height

\* a 1 x 2 image set from grayscale bytes, normalized and resized to 3 x 1
C15_Witness ==
    /\ probe.fn = "ComplexImage"
    /\ probe.last = "resize"
    /\ probe.calls = 3
    /\ probe.image =
          [width |-> 3, height |-> 1, data |-> <<CZero, CInt(1, 0), CZero>>]

\* C16 (as claimed): after construction, setFromRGB, transformRGB2D and
\* keepTopFrequenciesRGB the three channels of an RGBComplexImage have the
\* width and height the RGB image reports.
C16_ChannelsAgree ==
    (probe.fn = "RGBComplexImage" /\ probe.transform.pc = "idle") =>
        \A c \in 0..2 :
            /\ getChannel(probe.rgb, c).width = probe.rgb.width
            /\ getChannel(probe.rgb, c).height = probe.rgb.height

\* C20: transformRGB2D runs one task per channel; whatever the order in which
\* the tasks run, the input is left as it was, every future that is ready
\* holds transform2D of its own channel, and when the call returns all three
\* futures are ready and channel c of the result is transform2D(input
\* channel c, direction).
C20_ChannelsIndependent ==
    (probe.fn = "RGBComplexImage" /\ probe.transform.pc # "idle") =>
        LET t == probe.transform
        IN  /\ t.input = probe.rgb
            /\ \A c \in 0..2 :
                  /\ t.futures[c].state = "ready" =>
                        t.futures[c].value =
                            transform2D(getChannel(t.input, c), t.direction)
                  /\ t.pc = "returned" =>
                        /\ t.futures[c].state = "ready"
                        /\ getChannel(t.result, c) =
                              transform2D(getChannel(t.input, c), t.direction)
            /\ t.pc = "returned" =>
                  t.result = transformRGB2D(t.input, t.direction)

\* a forward transformRGB2D of a 2 x 1 image with three different channels
\* whose tasks finished in the order blue, green, red
C20_Witness ==
    /\ probe.fn = "RGBComplexImage"
    /\ probe.last = "setFromRGB"
    /\ probe.transform.pc = "returned"
    /\ probe.transform.direction = "Forward"
    /\ probe.transform.order = <<2, 1, 0>>
    /\ probe.rgb.width = 2
    /\ getChannel(probe.transform.result, 0).data =
          <<Complex(Rat(1, 1), RZero), Complex(Rat(1, 1), RZero)>>
    /\ getChannel(probe.transform.result, 1).data =
          <<Complex(Rat(6, 5), RZero), Complex(Rat(-4, 5), RZero)>>
    /\ getChannel(probe.transform.result, 2).data =
          <<Complex(Rat(2, 5), RZero), Complex(Rat(-2, 5), RZero)>>

\* C19: with F = forward(I), the mean squared error against I of the inverse
\* transform of keepTopFrequencies(F, k) does not increase as k goes from 0
\* to W x H, and is zero at k = W x H.
C19_MonotonicFidelity ==
    probe.fn = "reconstruct" /\ probe.pc = "filter" =>
        /\ \A k \in 1..(Len(probe.errors) - 1) :
              ~RLess(probe.errors[k], probe.errors[k + 1])
        /\ Len(probe.errors) = Len(probe.original.data) + 1 =>
              /\ probe.errors[Len(probe.errors)] = RZero
              /\ probe.reconstruction = probe.original

\* the 2 x 1 image (1, -2): error 5/2 with no frequency, 1/4 with one, 0
\* with both
C19_Witness ==
    /\ probe.fn = "reconstruct"
    /\ probe.pc = "filter"
    /\ probe.original = MakeImage(2, 1, <<<<1, 0>>, <<-2, 0>>>>)
    /\ probe.errors = <<Rat(5, 2), Rat(1, 4), RZero>>

----------------------------------------------------------------------------
(* UIManager: the frequency slider, the visualizer it drives and the       *)
(* FrequencyChangeEvent it dispatches.  The visualizer is shared, and its   *)
(* animation flag can be written through getAnimationState().              *)

InitialFrequencyCount == 100     \* frequencyCount_(100uz)
FrequencyLimit == 50000          \* maxFrequencies_(50000uz), std::min(50000uz, ...)
MaxSlider == 3                   \* largest count the slider is moved to

\* updateVisualization: updateAnimation(0.016f), in whole ticks
FrameTime == (16 * TicksPerSecond) \div 1000

\* the transformed images loadImage hands to the visualizer
UIImages ==
    { MakeRGB(2, 1, <<<<1, 0>>, <<3, 0>>>>, <<<<3, 0>>, <<1, 0>>>>,
                    <<<<0, 1>>, <<-1, 0>>>>),
      MakeRGB(2, 2, <<<<4, 0>>, <<0, 1>>, <<-2, 0>>, <<1, 0>>>>,
                    <<<<1, 0>>, <<2, 0>>, <<0, 0>>, <<1, 1>>>>,
                    <<<<0, 0>>, <<1, 0>>, <<3, 0>>, <<0, -1>>>>),
      MakeRGB(4, 2, <<<<8, 0>>, <<0, 1>>, <<-2, 0>>, <<0, -1>>,
                      <<1, 0>>, <<3, 0>>, <<0, 0>>, <<3, 0>>>>,
                    <<<<4, 0>>, <<1, 0>>, <<0, 0>>, <<1, 0>>,
                      <<2, 0>>, <<0, 2>>, <<0, 0>>, <<0, -2>>>>,
                    <<<<6, 0>>, <<0, 0>>, <<1, 0>>, <<0, 0>>,
                      <<0, 0>>, <<1, 1>>, <<5, 0>>, <<1, -1>>>>) }

\* UIManager::UIManager
UIManagerDefault ==
    [fn |-> "UIManager",
     frequencyCount_ |-> InitialFrequencyCount,
     maxFrequencies_ |-> FrequencyLimit,
     imageLoaded_ |-> FALSE,
     imageWidth_ |-> 0,
     imageHeight_ |-> 0,
     last |-> "UIManager",
     event |-> 0,           \* newFrequencyCount of the event dispatched last
     found |-> 0,           \* the count the visualizer's handler compared with
     visualized |-> 0,      \* reconstructions made by updateVisualization
     handled |-> 0]         \* reconstructions made by the handler

\* std::clamp(value, 1uz, hi); with hi < 1 the call is undefined and returns
\* one of its two limits
ClampedCounts(value, hi) ==
    IF hi >= 1
    THEN {IF value < 1 THEN 1 ELSE IF hi < value THEN hi ELSE value}
    ELSE {1, hi}

\* the visualizer left as it is, no reconstruction made
Untouched(state) == [state |-> state, calls |-> 0, reconstructions |-> 0]

\* the handler without its test of the current count
FrequencyChangeHandler_Always(fd, rgb, state, newFrequencyCount) ==
    DoSetFrequencyCount_Always(fd, rgb, state, newFrequencyCount)

\* the handler FourierVisualizer subscribes for FrequencyChangeEvent
FrequencyChangeHandler(fd, rgb, state, newFrequencyCount) ==
    IF state.current_frequency_count # newFrequencyCount
    THEN DoSetFrequencyCount(fd, rgb, state, newFrequencyCount)
    ELSE [state |-> state, reconstructions |-> 0]

InitUI ==
    /\ frequency_domain_ = ComplexImage(0, 0)
    /\ rgb_frequency_domain_ = RGBDefault
    /\ animation_state_ = AnimationStateDefault
    /\ lastOp = NoCall
    /\ probe = UIManagerDefault

\* UIManager::loadImage, the load and the transform having succeeded
UIManager_loadImage(transformed) ==
    /\ probe.fn = "UIManager"
    /\ \E maxFrequencies \in {Min(FrequencyLimit,
                                  (transformed.width * transformed.height) \div 4)} :
       \E frequencyCount \in {Min(probe.frequencyCount_, maxFrequencies)} :
       \E loaded \in {[resetAnimationState(animation_state_, TRUE) EXCEPT
                          !.reconstructed_rgb_image =
                              RGBComplexImage(transformed.width, transformed.height)]} :
       \* updateVisualization, imageLoaded_ being true
       \E set \in {DoSetFrequencyCount(frequency_domain_, transformed, loaded,
                                       frequencyCount)} :
       \E shown \in {DoUpdateAnimation(frequency_domain_, transformed, set.state,
                                       FrameTime)} :
          /\ rgb_frequency_domain_' = transformed
          /\ animation_state_' = shown.state
          /\ lastOp' = [op |-> "loadImage", changed |-> FALSE, calls |-> 0,
                        reconstructions |-> set.reconstructions + shown.reconstructions]
          /\ probe' = [probe EXCEPT !.imageLoaded_ = TRUE,
                                    !.imageWidth_ = transformed.width,
                                    !.imageHeight_ = transformed.height,
                                    !.maxFrequencies_ = maxFrequencies,
                                    !.frequencyCount_ = frequencyCount,
                                    !.last = "loadImage",
                                    !.visualized =
                                        set.reconstructions + shown.reconstructions,
                                    !.handled = 0]
    /\ UNCHANGED frequency_domain_

\* UIManager::update, the slider having been moved to value: the count is
\* clamped, updateVisualization runs, then the event is dispatched to the
\* visualizer's handler
UIManager_update(value) ==
    /\ probe.fn = "UIManager"
    /\ \E frequencyCount \in ClampedCounts(value, probe.maxFrequencies_) :
       \* updateVisualization: if (imageLoaded_ && visualizer_)
       \E set \in {IF probe.imageLoaded_
                   THEN DoSetFrequencyCount(frequency_domain_, rgb_frequency_domain_,
                                            animation_state_, frequencyCount)
                   ELSE Untouched(animation_state_)} :
       \E shown \in {IF probe.imageLoaded_
                     THEN DoUpdateAnimation(frequency_domain_, rgb_frequency_domain_,
                                            set.state, FrameTime)
                     ELSE Untouched(animation_state_)} :
       \E handled \in {FrequencyChangeHandler(frequency_domain_, rgb_frequency_domain_,
                                              shown.state, frequencyCount)} :
          /\ animation_state_' = handled.state
          /\ lastOp' = [op |-> "update", changed |-> FALSE, calls |-> 0,
                        reconstructions |->
                            set.reconstructions + shown.reconstructions
                                + handled.reconstructions]
          /\ probe' = [probe EXCEPT !.frequencyCount_ = frequencyCount,
                                    !.last = "update",
                                    !.event = frequencyCount,
                                    !.found = shown.state.current_frequency_count,
                                    !.visualized =
                                        set.reconstructions + shown.reconstructions,
                                    !.handled = handled.reconstructions]
    /\ UNCHANGED <<frequency_domain_, rgb_frequency_domain_>>

NextUI ==
    \/ \E transformed \in UIImages : UIManager_loadImage(transformed)
    \/ \E value \in 1..MaxSlider : UIManager_update(value)
    \/ \E value \in BOOLEAN : setAnimating(value)

SpecUI == InitUI /\ [][NextUI]_vars

----------------------------------------------------------------------------
(* EventDispatcher: handlers_ maps an event type to the vector of           *)
(* (id, handler) pairs subscribed for it.  A handler is named by the object *)
(* its closure captures.  The handlers of this program do not call the      *)
(* dispatcher themselves.                                                    *)

MaxHandlerIds == 3               \* cap on the ids subscribe hands out

EventTypes == {"FrequencyChangeEvent", "ImageLoadedEvent"}

\* HandlerId nextHandlerId_ = 1
FirstHandlerId == 1

\* EventDispatcher(): no handlers, nextHandlerId_ = 1
EventDispatcherDefault ==
    [handlers_ |-> <<>>, nextHandlerId_ |-> FirstHandlerId]

\* handlers_[typeIndex], which inserts an empty vector for a new type
HandlersAt(handlers, typeIndex) ==
    IF typeIndex \in DOMAIN handlers THEN handlers[typeIndex] ELSE <<>>

\* EventDispatcher::subscribe<T>: the dispatcher afterwards and the id returned
subscribe(dispatcher, typeIndex, handler) ==
    LET id == dispatcher.nextHandlerId_
    IN  [dispatcher |->
            [dispatcher EXCEPT
                !.nextHandlerId_ = id + 1,
                !.handlers_ =
                    [t \in DOMAIN dispatcher.handlers_ \cup {typeIndex} |->
                        IF t = typeIndex
                        THEN Append(HandlersAt(dispatcher.handlers_, t), <<id, handler>>)
                        ELSE dispatcher.handlers_[t]]],
         id |-> id]

\* unsubscribe that erases the pairs whose id differs from the one given
unsubscribe_Others(dispatcher, typeIndex, id) ==
    IF typeIndex \in DOMAIN dispatcher.handlers_
    THEN [dispatcher EXCEPT !.handlers_[typeIndex] =
             SelectSeq(@, LAMBDA pair : pair[1] = id)]
    ELSE dispatcher

\* EventDispatcher::unsubscribe<T>: erase(remove_if(pair.first == id))
unsubscribe(dispatcher, typeIndex, id) ==
    IF typeIndex \in DOMAIN dispatcher.handlers_
    THEN [dispatcher EXCEPT !.handlers_[typeIndex] =
             SelectSeq(@, LAMBDA pair : pair[1] # id)]
    ELSE dispatcher

\* EventDispatcher::dispatch<T>: the (id, handler) pairs called, in order
dispatch(dispatcher, typeIndex) ==
    IF typeIndex \in DOMAIN dispatcher.handlers_
    THEN dispatcher.handlers_[typeIndex]
    ELSE <<>>

\* the objects of the program that subscribe in their constructor and
\* unsubscribe in their destructor, both for FrequencyChangeEvent
Subscribers == {"FourierVisualizer", "UIManager"}

InitEvents ==
    /\ frequency_domain_ = ComplexImage(0, 0)
    /\ rgb_frequency_domain_ = RGBDefault
    /\ animation_state_ = AnimationStateDefault
    /\ lastOp = NoCall
    /\ probe = [fn |-> "EventDispatcher",
                dispatcher |-> EventDispatcherDefault,
                \* frequencyChangeHandlerId_ of each live object, 0 for none
                frequencyChangeHandlerId_ |-> [o \in Subscribers |-> 0],
                last |-> "EventDispatcher",
                type |-> "FrequencyChangeEvent",
                id |-> 0,
                invoked |-> <<>>,       \* pairs called by the last dispatch
                returned |-> <<>>,      \* ids returned by subscribe so far
                typeOf |-> <<>>,        \* typeOf[id]: the type id was subscribed for
                active |-> {},          \* ids subscribed and not unsubscribed
                destroyed |-> {}]       \* ids of handlers of destroyed objects

\* FourierVisualizer::FourierVisualizer, UIManager::UIManager: subscribe a
\* handler capturing this and keep the id
ConstructSubscriber(object) ==
    /\ probe.fn = "EventDispatcher"
    /\ probe.frequencyChangeHandlerId_[object] = 0
    /\ probe.dispatcher.nextHandlerId_ <= MaxHandlerIds
    /\ \E r \in {subscribe(probe.dispatcher, "FrequencyChangeEvent", object)} :
          probe' = [probe EXCEPT
                       !.dispatcher = r.dispatcher,
                       !.frequencyChangeHandlerId_[object] = r.id,
                       !.last = "subscribe",
                       !.type = "FrequencyChangeEvent",
                       !.id = r.id,
                       !.returned = Append(@, r.id),
                       !.typeOf = Append(@, "FrequencyChangeEvent"),
                       !.active = @ \cup {r.id}]
    /\ UNCHANGED <<frequency_domain_, rgb_frequency_domain_, animation_state_, lastOp>>

\* FourierVisualizer::~FourierVisualizer, UIManager::~UIManager
DestroySubscriber(object) ==
    /\ probe.fn = "EventDispatcher"
    /\ probe.frequencyChangeHandlerId_[object] # 0
    /\ \E id \in {probe.frequencyChangeHandlerId_[object]} :
          probe' = [probe EXCEPT
                       !.dispatcher = unsubscribe(@, "FrequencyChangeEvent", id),
                       !.frequencyChangeHandlerId_[object] = 0,
                       !.last = "unsubscribe",
                       !.type = "FrequencyChangeEvent",
                       !.id = id,
                       !.active = @ \ {id},
                       !.destroyed = @ \cup {id}]
    /\ UNCHANGED <<frequency_domain_, rgb_frequency_domain_, animation_state_, lastOp>>

\* subscribe<T> called with a handler that captures no object
Subscribe(typeIndex) ==
    /\ probe.fn = "EventDispatcher"
    /\ probe.dispatcher.nextHandlerId_ <= MaxHandlerIds
    /\ \E r \in {subscribe(probe.dispatcher, typeIndex, "none")} :
          probe' = [probe EXCEPT
                       !.dispatcher = r.dispatcher,
                       !.last = "subscribe",
                       !.type = typeIndex,
                       !.id = r.id,
                       !.returned = Append(@, r.id),
                       !.typeOf = Append(@, typeIndex),
                       !.active = @ \cup {r.id}]
    /\ UNCHANGED <<frequency_domain_, rgb_frequency_domain_, animation_state_, lastOp>>

\* unsubscribe<T>(id) called with an id subscribe returned earlier, for the
\* type it was subscribed for or for another one
Unsubscribe(typeIndex, id) ==
    /\ probe.fn = "EventDispatcher"
    /\ id \in 1..Len(probe.returned)
    /\ \A o \in Subscribers : probe.frequencyChangeHandlerId_[o] # id
    /\ probe' = [probe EXCEPT
                    !.dispatcher = unsubscribe(@, typeIndex, id),
                    !.last = "unsubscribe",
                    !.type = typeIndex,
                    !.id = id,
                    !.active = IF probe.typeOf[id] = typeIndex THEN @ \ {id} ELSE @]
    /\ UNCHANGED <<frequency_domain_, rgb_frequency_domain_, animation_state_, lastOp>>

\* dispatch<T>(event)
Dispatch(typeIndex) ==
    /\ probe.fn = "EventDispatcher"
    /\ probe' = [probe EXCEPT
                    !.last = "dispatch",
                    !.type = typeIndex,
                    !.id = 0,
                    !.invoked = dispatch(probe.dispatcher, typeIndex)]
    /\ UNCHANGED <<frequency_domain_, rgb_frequency_domain_, animation_state_, lastOp>>

NextEvents ==
    \/ \E object \in Subscribers : ConstructSubscriber(object)
    \/ \E object \in Subscribers : DestroySubscriber(object)
    \/ \E typeIndex \in EventTypes : Subscribe(typeIndex)
    \/ \E typeIndex \in EventTypes, id \in 1..MaxHandlerIds : Unsubscribe(typeIndex, id)
    \/ \E typeIndex \in EventTypes : Dispatch(typeIndex)

SpecEvents == InitEvents /\ [][NextEvents]_vars

----------------------------------------------------------------------------
(* Calls of getTopFrequencyIndices and keepTopFrequencies on one image for *)
(* num_frequencies = 0, 1, 2, ...                                          *)

InitGrow ==
    /\ frequency_domain_ = ComplexImage(0, 0)
    /\ rgb_frequency_domain_ = RGBDefault
    /\ animation_state_ = AnimationStateDefault
    /\ lastOp = NoCall
    /\ \E image \in ProbeImages :
          probe = [fn |-> "growing", image |-> image,
                   num_frequencies |-> 0,      \* the argument of the next calls
                   calls |-> 0,
                   indices |-> <<>>,           \* getTopFrequencyIndices, last call
                   previous |-> <<>>,          \* and the call before
                   kept |-> ComplexImage(0, 0),        \* keepTopFrequencies, last call
                   keptBefore |-> ComplexImage(0, 0)]  \* and the call before

\* getTopFrequencyIndices and keepTopFrequencies called with the next count
CallWithNextCount ==
    /\ probe.fn = "growing"
    /\ probe.num_frequencies <= MaxProbeCount
    /\ probe' = [probe EXCEPT
                    !.num_frequencies = @ + 1,
                    !.calls = @ + 1,
                    !.previous = probe.indices,
                    !.indices = getTopFrequencyIndices(probe.image,
                                                       probe.num_frequencies),
                    !.keptBefore = probe.kept,
                    !.kept = keepTopFrequencies(probe.image, probe.num_frequencies)]
    /\ UNCHANGED <<frequency_domain_, rgb_frequency_domain_, animation_state_, lastOp>>

NextGrow == CallWithNextCount

SpecGrow == InitGrow /\ [][NextGrow]_vars

----------------------------------------------------------------------------
(* Image replacement, pixel packing, sweep, masks, lines, events           *)

\* C21 (as claimed): after setImage or setRGBImage the held image, k, the
\* list, the reconstruction, the animation-enabled flag, the speed and the
\* accumulator are those the same call leaves on a freshly constructed
\* visualizer, whatever the state before the call was.
C21_OverwritesEveryField ==
    /\ lastOp.op = "setImage" =>
          /\ animation_state_.current_frequency_count = 0
          /\ animation_state_.active_frequencies = <<>>
          /\ animation_state_.reconstructed_image =
                ComplexImage(frequency_domain_.width, frequency_domain_.height)
          /\ animation_state_.time_accumulator = 0
          /\ animation_state_.is_animating = AnimationStateDefault.is_animating
          /\ animation_state_.animation_speed = AnimationStateDefault.animation_speed
    /\ lastOp.op = "setRGBImage" =>
          /\ animation_state_.current_frequency_count = 0
          /\ animation_state_.active_frequencies = <<>>
          /\ animation_state_.reconstructed_rgb_image =
                RGBComplexImage(rgb_frequency_domain_.width,
                                rgb_frequency_domain_.height)
          /\ animation_state_.time_accumulator = 0
          /\ animation_state_.is_animating = AnimationStateDefault.is_animating
          /\ animation_state_.animation_speed = AnimationStateDefault.animation_speed

\* C22: toRGB() after setFromRGB(p, width, height) returns width x height
\* words whose R, G and B bytes are those of the words of p and whose alpha
\* byte is 255; every channel sample setFromRGB produced is real and lies
\* in [0, 1].
C22_PixelRoundTrip ==
    (probe.fn = "toRGB" /\ probe.set) =>
        /\ \A c \in 0..2 : \A i \in 1..Len(getChannel(probe.rgb, c).data) :
              LET sample == getChannel(probe.rgb, c).data[i]
              IN  /\ sample.im = RZero
                  /\ ~RLess(sample.re, RZero)
                  /\ ~RLess(ROne, sample.re)
        /\ probe.last = "toRGB" =>
              /\ Len(probe.output) = probe.rgb.width * probe.rgb.height
              /\ Len(probe.output) = Len(probe.rgbData)
              /\ \A i \in 1..Len(probe.output) :
                    /\ probe.output[i][1] = probe.rgbData[i][1]
                    /\ probe.output[i][2] \div 256 = probe.rgbData[i][2] \div 256
                    /\ probe.output[i][2] % 256 = 255

\* 0x01FE8012 and 0x00FF6600 came back as 0x01FE80FF and 0x00FF66FF
C22_Witness ==
    /\ probe.fn = "toRGB"
    /\ probe.last = "toRGB"
    /\ probe.rgbData = << <<510, 32786>>, <<255, 26112>> >>
    /\ probe.rgb.width = 2
    /\ probe.output = << <<510, 33023>>, <<255, 26367>> >>

\* C23 (as claimed): with the animation on and an image of W x H samples
\* held, repeated updateAnimation(dt) calls with dt > 0 eventually bring k to
\* W x H; once they have, every further updateAnimation call leaves k, the
\* active-frequency list and the reconstruction unchanged.
C23_SweepToCeiling ==
    /\ (animation_state_.is_animating /\ HeldSize > 0) ~> (K = HeldSize)
    /\ [][(SweepFrame /\ lastOp.op = "updateAnimation" /\ K = HeldSize) =>
             /\ K' = K
             /\ animation_state_.active_frequencies' =
                   animation_state_.active_frequencies
             /\ animation_state_.reconstructed_image' =
                   animation_state_.reconstructed_image
             /\ animation_state_.reconstructed_rgb_image' =
                   animation_state_.reconstructed_rgb_image]_vars

\* the signed frequency of the claim: an index >= N / 2 maps to index - N
WrappedIndex(i, n) == IF 2 * i >= n THEN i - n ELSE i

HeldWidth ==
    IF animation_state_.is_rgb THEN rgb_frequency_domain_.width
    ELSE frequency_domain_.width

HeldHeight ==
    IF animation_state_.is_rgb THEN rgb_frequency_domain_.height
    ELSE frequency_domain_.height

\* C25: getVisualizationLines(canvasWidth, canvasHeight) returns one line
\* per active coordinate (u, v), in list order, from the canvas centre to
\* ((u + W/2) canvasWidth / W, (v + H/2) canvasHeight / H) clamped into the
\* canvas; it is a query and changes no state.
C25_LinePerFrequency ==
    \A canvas \in CanvasSizes :
        LET lines == getVisualizationLines(canvas[1], canvas[2])
            active == animation_state_.active_frequencies
        IN  /\ Len(lines) = Len(active)
            /\ \A i \in 1..Len(active) :
                  LET endX == RDiv(RMul(RAdd(Rat(active[i][1], 1), Rat(HeldWidth, 2)),
                                        Rat(canvas[1], 1)),
                                   Rat(HeldWidth, 1))
                      endY == RDiv(RMul(RAdd(Rat(active[i][2], 1), Rat(HeldHeight, 2)),
                                        Rat(canvas[2], 1)),
                                   Rat(HeldHeight, 1))
                  IN  /\ lines[i].x1 = Rat(canvas[1], 2)
                      /\ lines[i].y1 = Rat(canvas[2], 2)
                      /\ lines[i].x2 = Clamp(endX, RZero, Rat(canvas[1], 1))
                      /\ lines[i].y2 = Clamp(endY, RZero, Rat(canvas[2], 1))

\* the 2 x 2 gray image with k = 2: the lines of (0, 0) and (0, 1) on the
\* 4 x 2 canvas run from (2, 1) to (2, 1) and to (2, 2), the latter clamped
C25_Witness ==
    /\ ~animation_state_.is_rgb
    /\ frequency_domain_.width = 2
    /\ frequency_domain_.height = 2
    /\ animation_state_.active_frequencies = << <<0, 0>>, <<0, 1>> >>
    /\ getVisualizationLines(4, 2)[1].x2 = Rat(2, 1)
    /\ getVisualizationLines(4, 2)[1].y2 = Rat(1, 1)
    /\ getVisualizationLines(4, 2)[2].x1 = Rat(2, 1)
    /\ getVisualizationLines(4, 2)[2].y2 = Rat(2, 1)

\* C26: setFrequencyCount and updateAnimation leave the other mode alone: in
\* gray mode the RGB reconstruction and the held RGB image, in RGB mode the
\* gray reconstruction and the held gray image.
C26_OtherModeUntouched ==
    [][lastOp'.op \in {"setFrequencyCount", "updateAnimation"} =>
          /\ animation_state_.is_rgb' = animation_state_.is_rgb
          /\ ~animation_state_.is_rgb =>
                /\ animation_state_.reconstructed_rgb_image' =
                      animation_state_.reconstructed_rgb_image
                /\ rgb_frequency_domain_' = rgb_frequency_domain_
          /\ animation_state_.is_rgb =>
                /\ animation_state_.reconstructed_image' =
                      animation_state_.reconstructed_image
                /\ frequency_domain_' = frequency_domain_]_vars

\* a gray reconstruction made while an RGB image and a non-zero RGB
\* reconstruction from an earlier RGB mode are still stored
C26_Witness ==
    /\ lastOp.op = "setFrequencyCount"
    /\ lastOp.reconstructions = 1
    /\ ~animation_state_.is_rgb
    /\ HasNonZero(animation_state_.reconstructed_image)
    /\ rgb_frequency_domain_.width = 2
    /\ HasNonZero(getChannel(animation_state_.reconstructed_rgb_image, 0))

\* C27: for a sequence of power-of-two length n >= 2 and either direction
\* fft1D (the radix-2 Cooley-Tukey path) gives what the direct summation dft
\* gives; a sequence of length 0 or 1 comes back unchanged.
C27_FftEqualsDft ==
    (probe.fn = "fft1D" /\ probe.done) =>
        /\ Len(probe.original) <= 1 => probe.data = probe.original
        /\ (Len(probe.original) >= 2 /\ IsPowerOfTwo(Len(probe.original))) =>
              probe.data = dft(probe.original, probe.direction)

\* the inverse transform of (1, i, -2, 0): (-1 + i, 2, -1 - i, 4) / 4
C27_Witness ==
    /\ probe.fn = "fft1D"
    /\ probe.done
    /\ probe.direction = "Inverse"
    /\ probe.original = <<CInt(1, 0), CInt(0, 1), CInt(-2, 0), CInt(0, 0)>>
    /\ probe.data = <<Complex(Rat(-1, 4), Rat(1, 4)), Complex(Rat(1, 2), RZero),
                      Complex(Rat(-1, 4), Rat(-1, 4)), Complex(ROne, RZero)>>


\* C28 as stated: whenever UIManager::update handles a slider change,
\* updateVisualization has set the visualizer's count before the
\* FrequencyChangeEvent is dispatched, so the visualizer's handler finds its
\* count equal to the event's, makes no reconstruction of its own, and the
\* visualizer's k equals the UI's frequency count afterwards.
C28_HandlerFindsCountSet ==
    (probe.fn = "UIManager" /\ lastOp.op = "update") =>
        /\ probe.event = probe.frequencyCount_
        /\ probe.found = probe.event
        /\ probe.handled = 0
        /\ animation_state_.current_frequency_count = probe.frequencyCount_


\* C28: after UIManager::update has handled a slider change the event
\* carries the UI's frequency count and the visualizer's k equals it.  With
\* an image loaded and the visualizer not animating, updateVisualization
\* has set the count first (at most one reconstruction) and the
\* visualizer's handler finds it equal and reconstructs nothing.  With no
\* image loaded updateVisualization does nothing; then, and when the
\* visualizer is animating, the handler sets the count itself when it finds
\* a different one.
C28_CountSetOnce ==
    (probe.fn = "UIManager" /\ lastOp.op = "update") =>
        /\ probe.event = probe.frequencyCount_
        /\ animation_state_.current_frequency_count = probe.frequencyCount_
        /\ (probe.imageLoaded_ /\ ~animation_state_.is_animating) =>
              /\ probe.found = probe.event
              /\ probe.handled = 0
              /\ probe.visualized <= 1
        /\ ~probe.imageLoaded_ => probe.visualized = 0
        /\ probe.handled = (IF probe.found # probe.event THEN 1 ELSE 0)

\* a slider change with an image loaded that changed the count: the one
\* reconstruction was made by updateVisualization
C28_Witness ==
    /\ probe.fn = "UIManager"
    /\ lastOp.op = "update"
    /\ probe.imageLoaded_
    /\ ~animation_state_.is_animating
    /\ probe.visualized = 1
    /\ probe.handled = 0
    /\ probe.frequencyCount_ = 2
    /\ animation_state_.current_frequency_count = 2
    /\ Len(animation_state_.active_frequencies) = 2


\* the ids of ids, in increasing order
RECURSIVE Ascending(_)
Ascending(ids) ==
    IF ids = {} THEN <<>>
    ELSE LET least == CHOOSE i \in ids : \A j \in ids : i <= j
         IN  <<least>> \o Ascending(ids \ {least})

\* C29: every subscribe returns an id never returned before; a dispatch of
\* type T calls each handler subscribed for T and not unsubscribed since,
\* once, in subscription order, and no handler subscribed for another type;
\* unsubscribe<T>(id) removes that handler and leaves every other handler
\* subscribed; the handler of a destroyed FourierVisualizer or UIManager is
\* not called by a later dispatch.
C29_EventDispatcher ==
    probe.fn = "EventDispatcher" =>
        /\ \A i, j \in 1..Len(probe.returned) :
              i # j => probe.returned[i] # probe.returned[j]
        /\ \A t \in EventTypes :
              [i \in 1..Len(HandlersAt(probe.dispatcher.handlers_, t)) |->
                  HandlersAt(probe.dispatcher.handlers_, t)[i][1]]
              = Ascending({id \in probe.active : probe.typeOf[id] = t})
        /\ probe.last = "dispatch" =>
              /\ [i \in 1..Len(probe.invoked) |-> probe.invoked[i][1]]
                 = Ascending({id \in probe.active : probe.typeOf[id] = probe.type})
              /\ \A i \in 1..Len(probe.invoked) :
                    probe.invoked[i][1] \notin probe.destroyed

\* a dispatch of FrequencyChangeEvent after one of three subscribers, a
\* FourierVisualizer or UIManager, was destroyed: the two handlers left are
\* called in subscription order
C29_Witness ==
    /\ probe.fn = "EventDispatcher"
    /\ probe.last = "dispatch"
    /\ probe.type = "FrequencyChangeEvent"
    /\ probe.destroyed # {}
    /\ Len(probe.invoked) = 2
    /\ probe.invoked[1][1] < probe.invoked[2][1]
    /\ {probe.typeOf[id] : id \in probe.active} = {"FrequencyChangeEvent"}
    /\ Cardinality(probe.active) = 2
    /\ Len(probe.returned) = 3


\* C30: for one image, the list getTopFrequencyIndices returns for k is a
\* prefix of the list it returns for k + 1, one shorter while k < W x H,
\* also when samples have equal magnitude; every coordinate returned lies
\* inside the image and none is returned twice; every sample
\* keepTopFrequencies kept for k it keeps for k + 1.
C30_TopIndicesGrow ==
    (probe.fn = "growing" /\ probe.calls >= 2) =>
        LET image == probe.image
            k == probe.num_frequencies - 2
            size == image.width * image.height
        IN  /\ Len(probe.previous) <= Len(probe.indices)
            /\ probe.previous = SubSeq(probe.indices, 1, Len(probe.previous))
            /\ k < size => Len(probe.indices) = k + 1 /\ Len(probe.previous) = k
            /\ \A i \in 1..Len(probe.indices) :
                  /\ probe.indices[i][1] \in 0..(image.width - 1)
                  /\ probe.indices[i][2] \in 0..(image.height - 1)
                  /\ \A j \in 1..Len(probe.indices) :
                        i # j => probe.indices[i] # probe.indices[j]
            /\ \A x \in 0..(image.width - 1), y \in 0..(image.height - 1) :
                  /\ <<x, y>> \in {probe.previous[i] : i \in 1..Len(probe.previous)}
                        => at(probe.kept, x, y) = at(image, x, y)
                  /\ at(probe.keptBefore, x, y) # CInt(0, 0)
                        => at(probe.kept, x, y) = at(probe.keptBefore, x, y)

\* the calls for k = 2 and k = 3 on a 2 x 2 image whose four samples have
\* two magnitudes, two samples each: the tie is broken the same way in both
C30_Witness ==
    /\ probe.fn = "growing"
    /\ probe.image.width = 2
    /\ probe.image.height = 2
    /\ probe.image.data = <<CInt(1, 0), CInt(-2, 0), CInt(0, 1), CInt(-2, 0)>>
    /\ probe.previous = << <<1, 1>>, <<1, 0>> >>
    /\ probe.indices = << <<1, 1>>, <<1, 0>>, <<0, 1>> >>

====
